---- MODULE Spec2Model ----
(***************************************************************************)
(* State-machine model of the vector-canvas editor (PanelEditor.tsx) and   *)
(* of the per-page scene history kept by the application shell             *)
(* (handleShapesChange / handleUndo / handleRedo).                         *)
(*                                                                         *)
(* Coordinates are fixed-point integers: one document unit is U model      *)
(* units, so that the half-unit joint positions of the default skeleton    *)
(* are exact.  A constant c of the source appears here as c * U.           *)
(***************************************************************************)
EXTENDS Integers, Sequences, FiniteSets, TLC

\* ------------------------------------------------------------------ bounds
MaxShapes == 3      \* a creating event needs Len(shapes) < MaxShapes
MaxHistory == 5     \* a committing event needs index + 2 <= MaxHistory
MaxIds == 3         \* number of shape ids the clock hands out
MaxMoves == 2       \* pointer-moves observed per gesture
MaxViewOps == 1     \* view changes (pan / zoom / fit) per run
MaxPoints == 4      \* points of a polygon handed to getPolygonCentroid
MaxSteps == 7       \* user events per run
MaxVertices == 5    \* vertices of a panel after midpoint insertions

\* ------------------------------------------------------- fixed-point unit
U == 2

\* ------------------------------------------------------------ small types
Pt(px, py) == [x |-> px, y |-> py]

None == << >>
Some(v) == << v >>

Null == 0

Min2(a, b) == IF a < b THEN a ELSE b
Max2(a, b) == IF a > b THEN a ELSE b
Abs(a) == IF a < 0 THEN 0 - a ELSE a

RECURSIVE MinOf(_)
MinOf(s) == IF Len(s) = 1 THEN s[1] ELSE Min2(s[1], MinOf(Tail(s)))

RECURSIVE MaxOf(_)
MaxOf(s) == IF Len(s) = 1 THEN s[1] ELSE Max2(s[1], MaxOf(Tail(s)))

RECURSIVE Flat(_)
Flat(ss) == IF ss = << >> THEN << >> ELSE ss[1] \o Flat(Tail(ss))

Xs(points) == [i \in 1..Len(points) |-> points[i].x]
Ys(points) == [i \in 1..Len(points) |-> points[i].y]

MapSeq(s, F(_)) == [i \in 1..Len(s) |-> F(s[i])]

\* exact rationals for the view transform: [num, den], den > 0, reduced.
\* A division by zero gives what it gives in JavaScript: 0 / 0 is NaN,
\* kept as [0, 0], and n / 0 is an infinity, kept as [1, 0] or [-1, 0].
RECURSIVE Gcd(_, _)
Gcd(a, b) == IF b = 0 THEN a ELSE Gcd(b, a % b)

Rat(n, d) ==
    IF d = 0
    THEN [num |-> IF n > 0 THEN 1 ELSE IF n < 0 THEN -1 ELSE 0, den |-> 0]
    ELSE LET g == Gcd(Abs(n), Abs(d))
             sgn == IF d < 0 THEN -1 ELSE 1
         IN [num |-> (sgn * n) \div g, den |-> (sgn * d) \div g]

RInt(n) == [num |-> n, den |-> 1]
RAdd(a, b) == Rat(a.num * b.den + b.num * a.den, a.den * b.den)
RSub(a, b) == Rat(a.num * b.den - b.num * a.den, a.den * b.den)
RMul(a, b) == Rat(a.num * b.num, a.den * b.den)
RDiv(a, b) == Rat(a.num * b.den, a.den * b.num)
RLess(a, b) == a.num * b.den < b.num * a.den
RMin(a, b) == IF RLess(a, b) THEN a ELSE b
RMax(a, b) == IF RLess(a, b) THEN b ELSE a

\* document-space pointer positions (document units * U)
DocPoints == { Pt(50 * U, 50 * U), Pt(54 * U, 220 * U), Pt(250 * U, 200 * U) }

\* document-space positions at which a dragged character is released
DropPoints == { Pt(100 * U, 100 * U) }

\* screen-space pointer positions (pixels)
ScreenPoints == { Pt(0, 0), Pt(30, 10) }

\* screen-space cursor positions of wheel events (pixels)
WheelPoints == { Pt(30, 10) }

TextInputs == { "Hi" }

Tools == { "select", "panel", "text", "bubble", "draw", "pan", "arrow" }

\* ---------------------------------------------------------------- state
VARIABLES
    shapes,              \* Page.shapes: the live shape list
    shapesHistory,       \* Page.shapesHistory: sequence of snapshots
    shapesHistoryIndex,  \* Page.shapesHistoryIndex (0-based, as in the source)
    sceneDescription,    \* Page.sceneDescription, as its blank-line separated blocks
    viewTransform,       \* Page.viewTransform
    activeTool,          \* PanelEditor state
    action,              \* PanelEditor state: the current pointer action
    selectedShapeId,     \* PanelEditor state (Null when nothing is selected)
    editingShapeId,      \* PanelEditor state: the shape open in the text box
    clock,               \* Date.now(): source of shape ids
    historyOp,           \* observation: what the last event did to the history
    gesture,             \* observation: the pointer gesture in progress
    replay,              \* observation: commits / undos / redos since the fresh page
    viewOps,             \* observation: number of view changes so far
    steps,               \* observation: number of user events so far
    lastEvent,           \* observation: the event handled last
    characters,          \* App state: the character list
    assistantProposalImage,  \* Page.assistantProposalImage (None when there is none)
    isSpacePressed,      \* PanelEditor ref: the space key is held
    posingCharacter,     \* PanelEditor state: the image open in the pose editor
    skeletonPose,        \* PoseEditorModal state (None while it is not mounted)
    isLoading,           \* App state: a page generation is outstanding
    viewMode             \* App state: "editor" or "result"

vars == << shapes, shapesHistory, shapesHistoryIndex, sceneDescription,
          editingShapeId,
           viewTransform, activeTool, action, selectedShapeId, clock,
           historyOp, gesture, replay, viewOps, steps, lastEvent,
           characters, assistantProposalImage, isSpacePressed,
           posingCharacter, skeletonPose, isLoading, viewMode >>

pageVars == << shapes, shapesHistory, shapesHistoryIndex, sceneDescription >>

\* ------------------------------------------------------------- geometry
\* getShapeBBox (PanelEditor.tsx): tight box of the points for panel, arrow
\* and drawing; the stored box for everything else.
getShapeBBox(shape) ==
    IF shape.type \in { "panel", "arrow" }
    THEN IF Len(shape.points) = 0
         THEN [x |-> shape.x, y |-> shape.y, width |-> 0, height |-> 0]
         ELSE LET xs == Xs(shape.points)
                  ys == Ys(shape.points)
              IN [x |-> MinOf(xs), y |-> MinOf(ys),
                  width |-> MaxOf(xs) - MinOf(xs),
                  height |-> MaxOf(ys) - MinOf(ys)]
    ELSE IF shape.type = "drawing"
    THEN IF Len(shape.points) = 0 \/ Len(shape.points[1]) = 0
         THEN [x |-> shape.x, y |-> shape.y, width |-> 0, height |-> 0]
         ELSE LET all == Flat(shape.points)
                  xs == Xs(all)
                  ys == Ys(all)
              IN [x |-> MinOf(xs), y |-> MinOf(ys),
                  width |-> MaxOf(xs) - MinOf(xs),
                  height |-> MaxOf(ys) - MinOf(ys)]
    ELSE [x |-> shape.x, y |-> shape.y,
          width |-> shape.width, height |-> shape.height]

InBox(pos, box) ==
    /\ box.x <= pos.x /\ pos.x <= box.x + box.width
    /\ box.y <= pos.y /\ pos.y <= box.y + box.height

\* the pointer is over the shape's rendered body (a polygon without points
\* renders nothing that could receive the event)
OverShape(pos, shape) ==
    /\ shape.type = "panel" => Len(shape.points) > 0
    /\ InBox(pos, getShapeBBox(shape))

Ids(list) == { list[i].id : i \in 1..Len(list) }

HasId(list, id) == id \in Ids(list)

\* shapes.find(s => s.id === id); only used where HasId holds
FindShape(list, id) == list[CHOOSE i \in 1..Len(list) : list[i].id = id]

CountType(list, t) == Cardinality({ i \in 1..Len(list) : list[i].type = t })

\* ------------------------------------------------------- observations
ReplayOff == [phase |-> "off", commits |-> << >>, undos |-> 0, redos |-> 0]

ReplayCommit(newShapes) ==
    IF replay.phase = "commit"
    THEN [replay EXCEPT !.commits = Append(@, newShapes)]
    ELSE ReplayOff

ReplayUndo ==
    IF replay.phase \in { "commit", "undo" } /\ replay.undos < Len(replay.commits)
    THEN [replay EXCEPT !.phase = "undo", !.undos = @ + 1]
    ELSE ReplayOff

ReplayRedo ==
    IF /\ \/ replay.phase = "undo" /\ replay.undos = Len(replay.commits)
          \/ replay.phase = "redo"
       /\ replay.redos < Len(replay.commits)
    THEN [replay EXCEPT !.phase = "redo", !.redos = @ + 1]
    ELSE ReplayOff

\* what an event did to the history, with the index and length it found
HistoryOp(op) ==
    [op |-> op, from |-> shapesHistoryIndex, len |-> Len(shapesHistory)]

NoOp == [op |-> "none", from |-> 0, len |-> 0]

GestureIdle ==
    [phase |-> "idle", kind |-> "none", before |-> << >>, len0 |-> 0,
     idx0 |-> 0, moves |-> 0, clean |-> TRUE]

GestureStart(kind) ==
    [phase |-> "active", kind |-> kind, before |-> shapes,
     len0 |-> Len(shapesHistory), idx0 |-> shapesHistoryIndex,
     moves |-> 0, clean |-> TRUE]

\* an event that is not part of the pointer gesture
GestureDisturbed ==
    IF gesture.phase = "active" THEN [gesture EXCEPT !.clean = FALSE]
    ELSE GestureIdle

\* ------------------------------------------------ scene history (per page)
\* The script is kept as its blocks, the pieces between blank lines: a block
\* [n |-> i, text |-> t] starts with "Panel i:" and goes on with t, a block
\* with n = 0 is a paragraph t without such a start.  A text never holds
\* "Panel i:" itself.

\* the paragraphs after block k up to the next "Panel i:" block
FollowingParagraphs(desc, k) ==
    LET stop == { m \in k + 1..Len(desc) : desc[m].n # 0 }
        last == IF stop = { } THEN Len(desc)
                ELSE (CHOOSE m \in stop : \A j \in stop : m <= j) - 1
    IN [j \in 1..last - k |-> desc[k + j].text]

\* (variant: no text is carried over)
ExistingPanelText_none(desc, i) == << >>

\* existingPanels[i] || '' : what the regular expression captures after the
\* last "Panel i:", trimmed, as its paragraphs (none for '')
ExistingPanelText(desc, i) ==
    LET hits == { k \in 1..Len(desc) : desc[k].n = i }
    IN IF hits = { } THEN << >>
       ELSE LET k == CHOOSE k \in hits : \A j \in hits : j <= k
            IN SelectSeq(<< desc[k].text >> \o FollowingParagraphs(desc, k),
                         LAMBDA t : t # "")

\* `Panel ${i}: ${text}` and the blank line after it
PanelSection(i, paragraphs) ==
    IF paragraphs = << >> THEN << [n |-> i, text |-> ""] >>
    ELSE << [n |-> i, text |-> paragraphs[1]] >>
         \o [j \in 1..Len(paragraphs) - 1 |-> [n |-> 0, text |-> paragraphs[j + 1]]]

\* the script restructuring of handleShapesChange
UpdatedSceneDescription(desc, oldShapes, newShapes) ==
    LET newPanelCount == CountType(newShapes, "panel")
        oldPanelCount == CountType(oldShapes, "panel")
    IN IF newPanelCount # oldPanelCount
       THEN Flat([i \in 1..newPanelCount |->
                     PanelSection(i, ExistingPanelText(desc, i))])
       ELSE desc

\* (variant: the redo tail is kept)
CommitHistory_keepTail(history, index, newShapes) ==
    Append(history, newShapes)

\* recordHistory branch: slice(0, index + 1), push, index = length - 1
CommitHistory(history, index, newShapes) ==
    Append(SubSeq(history, 1, index + 1), newShapes)

\* (variant: the in-place update drops the redo tail)
OverwriteHistory_truncating(history, index, newShapes) ==
    Append(SubSeq(history, 1, index), newShapes)

\* in-place branch: newHistory[index] = newShapes
OverwriteHistory(history, index, newShapes) ==
    [history EXCEPT ![index + 1] = newShapes]

\* (variant: every call records a history entry)
handleShapesChange_alwaysRecord(newShapes, recordHistory) ==
    /\ shapes' = newShapes
    /\ sceneDescription' =
           UpdatedSceneDescription(sceneDescription, shapes, newShapes)
    /\ shapesHistory' =
           CommitHistory(shapesHistory, shapesHistoryIndex, newShapes)
    /\ shapesHistoryIndex' = Len(shapesHistory') - 1
    /\ historyOp' = HistoryOp(IF recordHistory THEN "commit" ELSE "inplace")
    /\ replay' = IF recordHistory THEN ReplayCommit(newShapes) ELSE ReplayOff

\* handleShapesChange(newShapes, recordHistory)
handleShapesChange(newShapes, recordHistory) ==
    /\ shapes' = newShapes
    /\ sceneDescription' =
           UpdatedSceneDescription(sceneDescription, shapes, newShapes)
    /\ IF recordHistory
       THEN /\ shapesHistory' =
                   CommitHistory(shapesHistory, shapesHistoryIndex, newShapes)
            /\ shapesHistoryIndex' = Len(shapesHistory') - 1
       ELSE /\ shapesHistory' =
                   OverwriteHistory(shapesHistory, shapesHistoryIndex, newShapes)
            /\ shapesHistoryIndex' = shapesHistoryIndex
    /\ historyOp' = HistoryOp(IF recordHistory THEN "commit" ELSE "inplace")
    /\ replay' = IF recordHistory THEN ReplayCommit(newShapes) ELSE ReplayOff

\* (variant: the index moves but the live list is read at the old index)
UndoPage_stale ==
    /\ IF shapesHistoryIndex <= 0
       THEN UNCHANGED pageVars
       ELSE /\ shapes' = shapesHistory[shapesHistoryIndex + 1]
            /\ shapesHistoryIndex' = shapesHistoryIndex - 1
            /\ UNCHANGED << shapesHistory, sceneDescription >>
    /\ historyOp' = HistoryOp("undo")
    /\ replay' = ReplayUndo

\* handleUndo: the page transformation
UndoPage ==
    /\ IF shapesHistoryIndex <= 0
       THEN UNCHANGED pageVars
       ELSE /\ shapes' = shapesHistory[(shapesHistoryIndex - 1) + 1]
            /\ shapesHistoryIndex' = shapesHistoryIndex - 1
            /\ UNCHANGED << shapesHistory, sceneDescription >>
    /\ historyOp' = HistoryOp("undo")
    /\ replay' = ReplayUndo

\* (variant: redo jumps to the last snapshot)
RedoPage_toLast ==
    /\ IF shapesHistoryIndex >= Len(shapesHistory) - 1
       THEN UNCHANGED pageVars
       ELSE /\ shapes' = shapesHistory[Len(shapesHistory)]
            /\ shapesHistoryIndex' = Len(shapesHistory) - 1
            /\ UNCHANGED << shapesHistory, sceneDescription >>
    /\ historyOp' = HistoryOp("redo")
    /\ replay' = ReplayRedo

\* handleRedo: the page transformation
RedoPage ==
    /\ IF shapesHistoryIndex >= Len(shapesHistory) - 1
       THEN UNCHANGED pageVars
       ELSE /\ shapes' = shapesHistory[(shapesHistoryIndex + 1) + 1]
            /\ shapesHistoryIndex' = shapesHistoryIndex + 1
            /\ UNCHANGED << shapesHistory, sceneDescription >>
    /\ historyOp' = HistoryOp("redo")
    /\ replay' = ReplayRedo

\* an event that leaves the page's scene and history alone
NoHistoryOp ==
    /\ UNCHANGED pageVars
    /\ UNCHANGED replay
    /\ historyOp' = NoOp

\* canUndo / canRedo props handed to the editor
canUndo == shapesHistoryIndex > 0
canRedo == shapesHistoryIndex < Len(shapesHistory) - 1

\* ------------------------------------------------------------ pose rig
JointNames == { "head", "neck", "leftShoulder", "rightShoulder",
                "leftElbow", "rightElbow", "leftHand", "rightHand",
                "hips", "leftHip", "rightHip", "leftKnee", "rightKnee",
                "leftFoot", "rightFoot", "leftEye", "rightEye", "nose",
                "mouth" }

\* a point with exact fractional coordinates
RPt(rx, ry) == [x |-> rx, y |-> ry]

\* createInitialSkeleton(x, y, width, height) of PanelEditor.tsx; the
\* decimal factors are exact fractions (0.15 = 15/100, ...) and the joints
\* are points with fractional coordinates
createInitialSkeleton(x, y, width, height) ==
    LET centerX == RAdd(RInt(x), Rat(width, 2))
        topY == RAdd(RInt(y), Rat(height * 15, 100))
        hipY == RAdd(RInt(y), Rat(height * 5, 10))
        armY == RAdd(RInt(y), Rat(height * 3, 10))
        legY == RAdd(RInt(y), Rat(height * 9, 10))
        shoulderWidth == Rat(width * 2, 10)
        hipWidth == Rat(width * 15, 100)
        eyeY == RSub(topY, Rat(height * 3, 100))
        eyeDistX == Rat(width * 7, 100)
        noseY == topY
        mouthY == RAdd(topY, Rat(height * 5, 100))
    IN [j \in JointNames |->
        CASE j = "head" -> RPt(centerX, topY)
          [] j = "neck" -> RPt(centerX, armY)
          [] j = "leftShoulder" -> RPt(RSub(centerX, shoulderWidth), armY)
          [] j = "rightShoulder" -> RPt(RAdd(centerX, shoulderWidth), armY)
          [] j = "leftElbow" ->
               RPt(RSub(centerX, RMul(shoulderWidth, Rat(15, 10))), hipY)
          [] j = "rightElbow" ->
               RPt(RAdd(centerX, RMul(shoulderWidth, Rat(15, 10))), hipY)
          [] j = "leftHand" ->
               RPt(RSub(centerX, RMul(shoulderWidth, Rat(12, 10))),
                   RSub(legY, Rat(height, 10)))
          [] j = "rightHand" ->
               RPt(RAdd(centerX, RMul(shoulderWidth, Rat(12, 10))),
                   RSub(legY, Rat(height, 10)))
          [] j = "hips" -> RPt(centerX, hipY)
          [] j = "leftHip" -> RPt(RSub(centerX, hipWidth), hipY)
          [] j = "rightHip" -> RPt(RAdd(centerX, hipWidth), hipY)
          [] j = "leftKnee" ->
               RPt(RSub(centerX, hipWidth), RAdd(hipY, Rat(height * 2, 10)))
          [] j = "rightKnee" ->
               RPt(RAdd(centerX, hipWidth), RAdd(hipY, Rat(height * 2, 10)))
          [] j = "leftFoot" -> RPt(RSub(centerX, hipWidth), legY)
          [] j = "rightFoot" -> RPt(RAdd(centerX, hipWidth), legY)
          [] j = "leftEye" -> RPt(RSub(centerX, eyeDistX), eyeY)
          [] j = "rightEye" -> RPt(RAdd(centerX, eyeDistX), eyeY)
          [] j = "nose" -> RPt(centerX, noseY)
          [] j = "mouth" -> RPt(centerX, mouthY)]

\* the pose editor's window
MODAL_WIDTH == 200 * U

MODAL_HEIGHT == 400 * U

\* the pose editor's own createInitialSkeleton: its right knee is put
\* 0.2 below the hips, whatever the height of the box
PoseEditorModal_createInitialSkeleton(x, y, width, height) ==
    LET centerX == RAdd(RInt(x), Rat(width, 2))
        topY == RAdd(RInt(y), Rat(height * 15, 100))
        hipY == RAdd(RInt(y), Rat(height * 5, 10))
        armY == RAdd(RInt(y), Rat(height * 3, 10))
        legY == RAdd(RInt(y), Rat(height * 9, 10))
        shoulderWidth == Rat(width * 2, 10)
        hipWidth == Rat(width * 15, 100)
        eyeY == RSub(topY, Rat(height * 3, 100))
        eyeDistX == Rat(width * 7, 100)
        noseY == topY
        mouthY == RAdd(topY, Rat(height * 5, 100))
    IN [j \in JointNames |->
        CASE j = "head" -> RPt(centerX, topY)
          [] j = "neck" -> RPt(centerX, armY)
          [] j = "leftShoulder" -> RPt(RSub(centerX, shoulderWidth), armY)
          [] j = "rightShoulder" -> RPt(RAdd(centerX, shoulderWidth), armY)
          [] j = "leftElbow" ->
               RPt(RSub(centerX, RMul(shoulderWidth, Rat(15, 10))), hipY)
          [] j = "rightElbow" ->
               RPt(RAdd(centerX, RMul(shoulderWidth, Rat(15, 10))), hipY)
          [] j = "leftHand" ->
               RPt(RSub(centerX, RMul(shoulderWidth, Rat(12, 10))),
                   RSub(legY, Rat(height, 10)))
          [] j = "rightHand" ->
               RPt(RAdd(centerX, RMul(shoulderWidth, Rat(12, 10))),
                   RSub(legY, Rat(height, 10)))
          [] j = "hips" -> RPt(centerX, hipY)
          [] j = "leftHip" -> RPt(RSub(centerX, hipWidth), hipY)
          [] j = "rightHip" -> RPt(RAdd(centerX, hipWidth), hipY)
          [] j = "leftKnee" ->
               RPt(RSub(centerX, hipWidth), RAdd(hipY, Rat(height * 2, 10)))
          [] j = "rightKnee" ->
               RPt(RAdd(centerX, hipWidth), RAdd(hipY, Rat(2 * U, 10)))
          [] j = "leftFoot" -> RPt(RSub(centerX, hipWidth), legY)
          [] j = "rightFoot" -> RPt(RAdd(centerX, hipWidth), legY)
          [] j = "leftEye" -> RPt(RSub(centerX, eyeDistX), eyeY)
          [] j = "rightEye" -> RPt(RAdd(centerX, eyeDistX), eyeY)
          [] j = "nose" -> RPt(centerX, noseY)
          [] j = "mouth" -> RPt(centerX, mouthY)]

\* (variant: the joints follow the shape horizontally only)
TranslateSkeleton_xOnly(data, dx, dy) ==
    [j \in DOMAIN data |-> RPt(RAdd(data[j].x, RInt(dx)), data[j].y)]

\* the per-joint translation of the dragging branch (default case)
TranslateSkeleton(data, dx, dy) ==
    [j \in DOMAIN data |->
        RPt(RAdd(data[j].x, RInt(dx)), RAdd(data[j].y, RInt(dy)))]

\* the character list after one character was saved
InitialCharacters == << [id |-> "c1", name |-> "Hero"] >>

\* isPointInPolygon: even-odd ray casting.  The source compares
\*   point.x < (xj - xi) * (point.y - yi) / (yj - yi) + xi ;
\* it is evaluated here without the division (yj # yi when it is reached).
isPointInPolygon(point, polygon) ==
    LET n == Len(polygon)
        Prev(i) == IF i = 1 THEN n ELSE i - 1
        Crosses(i) ==
            LET xi == polygon[i].x
                yi == polygon[i].y
                xj == polygon[Prev(i)].x
                yj == polygon[Prev(i)].y
            IN /\ (yi > point.y) # (yj > point.y)
               /\ IF yj - yi > 0
                  THEN (point.x - xi) * (yj - yi) < (xj - xi) * (point.y - yi)
                  ELSE (point.x - xi) * (yj - yi) > (xj - xi) * (point.y - yi)
    IN Cardinality({ i \in 1..n : Crosses(i) }) % 2 = 1

\* one user event: the run is cut off after MaxSteps of them
AppEvent(e) ==
    /\ steps < MaxSteps
    /\ steps' = steps + 1
    /\ lastEvent' = e

\* an event that leaves the generation of the page alone
UserEvent(e) ==
    /\ AppEvent(e)
    /\ UNCHANGED << isLoading, viewMode >>

\* an event of the mounted editor that leaves the character list, the
\* proposal, the space key and the pose editor alone
Event(e) ==
    /\ UserEvent(e)
    /\ viewMode = "editor"
    /\ UNCHANGED << characters, assistantProposalImage, isSpacePressed,
                    posingCharacter, skeletonPose >>

NoEvent == [kind |-> "none", key |-> ""]

\* a keydown event on the window, with whether the text box was open
KeyEvent(key) ==
    [kind |-> "key", key |-> key, editing |-> editingShapeId # Null]

\* a wheel event over the svg at a screen point
\* a pointer-move over the svg, at a document point
MoveEvent(pos) == [kind |-> "move", key |-> "", cursor |-> pos]

\* a drop event on the svg, released at a document point
DropEvent(point) == [kind |-> "drop", key |-> "", cursor |-> point]

WheelEvent(screen, direction) ==
    [kind |-> "wheel", key |-> "", cursor |-> screen, direction |-> direction,
     from |-> viewTransform.scale]

Step == Event(NoEvent)

\* a primary-button pointer-down: what it hit, the tool and the space key
DownEvent(target) ==
    [kind |-> "down", key |-> "", target |-> target, tool |-> activeTool,
     space |-> isSpacePressed]

\* a pointer-up (or the pointer leaving the svg), with the action it ended
DownAt(target, screen) ==
    [kind |-> "down", key |-> "", target |-> target, tool |-> activeTool,
     space |-> isSpacePressed, cursor |-> screen]

UpEvent == [kind |-> "up", key |-> "", from |-> action.type]

\* a pointer-move while panning, at a screen point
PanEvent(screen) == [kind |-> "pan", key |-> "", cursor |-> screen]

\* --------------------------------------------------- pointer: mouse down
NoAction == [type |-> "none"]

Panning(screen) ==
    [type |-> "panning", startPos |-> screen, startVT |-> viewTransform]

NewPanel(id, pos) ==
    [id |-> id, type |-> "panel", points |-> << >>,
     x |-> pos.x, y |-> pos.y, width |-> 0, height |-> 0]

NewText(id, pos) ==
    [id |-> id, type |-> "text", text |-> "Enter Text",
     x |-> pos.x, y |-> pos.y - 20 * U, fontSize |-> 30 * U,
     width |-> 200 * U, height |-> 40 * U]

NewBubble(id, pos) ==
    [id |-> id, type |-> "bubble", bubbleType |-> "rounded",
     text |-> "Double-click to edit",
     x |-> pos.x, y |-> pos.y, width |-> 0, height |-> 0, tail |-> None]

NewDrawing(id, pos) ==
    [id |-> id, type |-> "drawing", points |-> << << pos >> >>,
     x |-> pos.x, y |-> pos.y, strokeColor |-> "#000000", strokeWidth |-> 5]

NewArrow(id, pos) ==
    [id |-> id, type |-> "arrow", points |-> << pos, pos >>,
     x |-> pos.x, y |-> pos.y, strokeColor |-> "#FF0000", strokeWidth |-> 5]

\* room for one more shape, one more id and one more committed snapshot
CanCreate ==
    /\ Len(shapes) < MaxShapes
    /\ clock <= MaxIds
    /\ shapesHistoryIndex + 2 <= MaxHistory

\* handleMouseDown on the svg: target is the svg itself ("svg", the gray
\* area around the page) or anything inside it ("canvas").  The text tool's
\* setTimeout(() => setEditingShapeId(id), 0) runs before the next event.
handleMouseDown(target, pos, screen) ==
    /\ Event(DownAt(target, screen))
    /\ action.type = "none"
    /\ UNCHANGED << viewTransform, viewOps >>
    /\ IF target = "svg" \/ isSpacePressed \/ activeTool = "pan"
       THEN /\ viewOps < MaxViewOps
            /\ action' = Panning(screen)
            /\ NoHistoryOp
            /\ UNCHANGED << activeTool, selectedShapeId, editingShapeId, clock,
                            gesture >>
       ELSE LET id == clock IN
            CASE activeTool = "panel" ->
                   /\ CanCreate
                   /\ action' = [type |-> "creating", shape |-> NewPanel(id, pos)]
                   /\ handleShapesChange(Append(shapes, NewPanel(id, pos)), FALSE)
                   /\ selectedShapeId' = Null
                   /\ clock' = clock + 1
                   /\ gesture' = GestureStart("creating")
                   /\ UNCHANGED << activeTool, editingShapeId >>
              [] activeTool = "text" ->
                   /\ CanCreate
                   /\ handleShapesChange(Append(shapes, NewText(id, pos)), TRUE)
                   /\ activeTool' = "select"
                   /\ selectedShapeId' = id
                   /\ editingShapeId' = id
                   /\ clock' = clock + 1
                   /\ gesture' = GestureIdle
                   /\ UNCHANGED action
              [] activeTool = "bubble" ->
                   /\ CanCreate
                   /\ action' = [type |-> "creating", shape |-> NewBubble(id, pos)]
                   /\ handleShapesChange(Append(shapes, NewBubble(id, pos)), FALSE)
                   /\ selectedShapeId' = Null
                   /\ clock' = clock + 1
                   /\ gesture' = GestureStart("creating")
                   /\ UNCHANGED << activeTool, editingShapeId >>
              [] activeTool = "draw" ->
                   /\ CanCreate
                   /\ action' = [type |-> "drawing", shapeId |-> id,
                                 currentStroke |-> << pos >>]
                   /\ handleShapesChange(Append(shapes, NewDrawing(id, pos)), FALSE)
                   /\ selectedShapeId' = Null
                   /\ clock' = clock + 1
                   /\ gesture' = GestureStart("drawing")
                   /\ UNCHANGED << activeTool, editingShapeId >>
              [] activeTool = "arrow" ->
                   /\ CanCreate
                   /\ action' = [type |-> "creating", shape |-> NewArrow(id, pos)]
                   /\ handleShapesChange(Append(shapes, NewArrow(id, pos)), FALSE)
                   /\ selectedShapeId' = Null
                   /\ clock' = clock + 1
                   /\ gesture' = GestureStart("creating")
                   /\ UNCHANGED << activeTool, editingShapeId >>
              [] OTHER ->
                   /\ selectedShapeId' = Null
                   /\ gesture' = GestureIdle
                   /\ NoHistoryOp
                   /\ UNCHANGED << activeTool, action, editingShapeId, clock >>

\* the corner handles drawn around a selected bubble, image or text
Handles == { "top-left", "top-right", "bottom-left", "bottom-right" }

\* handle.includes(side)
HandleIncludes(handle, side) ==
    CASE side = "left" -> handle \in { "top-left", "bottom-left" }
      [] side = "right" -> handle \in { "top-right", "bottom-right" }
      [] side = "top" -> handle \in { "top-left", "top-right" }
      [] side = "bottom" -> handle \in { "bottom-left", "bottom-right" }

\* the corner handles are drawn around the selected bubble, image or text
HasResizeHandles(i) ==
    /\ i \in 1..Len(shapes)
    /\ selectedShapeId = shapes[i].id
    /\ shapes[i].type \in { "bubble", "image", "text" }

\* the controls of the selected shape: the tail point of a bubble with a
\* tail, the vertex circles of a panel (select tool only) and the two end
\* circles of an arrow; handle is the index the control passes
HasControl(i, type, handle) ==
    /\ i \in 1..Len(shapes)
    /\ selectedShapeId = shapes[i].id
    /\ CASE type = "tail" ->
              shapes[i].type = "bubble" /\ shapes[i].tail # None
         [] type = "panelVertex" ->
              /\ shapes[i].type = "panel"
              /\ activeTool = "select"
              /\ handle \in 0..(Len(shapes[i].points) - 1)
         [] type = "arrowHandle" ->
              shapes[i].type = "arrow" /\ handle \in { 0, 1 }
         [] OTHER -> FALSE

\* handleShapeInteraction(e, shape, type, handle): pointer-down on the body
\* of the shape at list position i (type 'shape'), on a corner handle
\* (type 'resize') or on one of its controls (types 'tail', 'panelVertex',
\* 'arrowHandle').  The handler sets no action when the type does not fit
\* the kind of the shape.
\* (variant: a resize is accepted for every kind of shape)
Resizable_anyKind(shape) ==
    shape.type \in { "bubble", "image", "text", "panel", "drawing", "arrow" }

\* handleShapeInteraction: the kinds for which type 'resize' sets an action
Resizable(shape) == shape.type \in { "bubble", "image", "text" }

handleShapeInteraction(i, type, handle, pos, screen) ==
    /\ Event(DownAt(type, screen))
    /\ UNCHANGED editingShapeId
    /\ action.type = "none"
    /\ i \in 1..Len(shapes)
    /\ activeTool \in { "select", "pan" }
    /\ CASE type = "shape" -> OverShape(pos, shapes[i])
         [] type = "resize" -> TRUE
         [] OTHER -> HasControl(i, type, handle)
    /\ NoHistoryOp
    /\ UNCHANGED << viewTransform, activeTool, clock, viewOps >>
    /\ IF activeTool = "pan" \/ isSpacePressed
       THEN /\ viewOps < MaxViewOps
            /\ action' = Panning(screen)
            /\ UNCHANGED << selectedShapeId, gesture >>
       ELSE LET shape == shapes[i]
                bbox == getShapeBBox(shape) IN
            /\ shapesHistoryIndex + 2 <= MaxHistory
            /\ selectedShapeId' = shape.id
            /\ CASE type = "shape" ->
                      /\ action' = [type |-> "dragging", shapeId |-> shape.id,
                                    startOffset |->
                                        Pt(pos.x - bbox.x, pos.y - bbox.y)]
                      /\ gesture' = GestureStart("dragging")
                 [] type = "resize" /\ Resizable(shape) ->
                      /\ action' = [type |-> "resizing", shapeId |-> shape.id,
                                    handle |-> handle,
                                    originalShape |-> shape]
                      /\ gesture' = GestureStart("resizing")
                 [] type = "tail" /\ shape.type = "bubble" ->
                      /\ action' = [type |-> "draggingTail",
                                    shapeId |-> shape.id]
                      /\ gesture' = GestureStart("draggingTail")
                 [] type = "panelVertex" /\ shape.type = "panel" ->
                      /\ action' = [type |-> "editingPanelVertex",
                                    shapeId |-> shape.id,
                                    vertexIndex |-> handle]
                      /\ gesture' = GestureStart("editingPanelVertex")
                 [] type = "arrowHandle" /\ shape.type = "arrow" ->
                      /\ action' = [type |-> "draggingArrowHandle",
                                    shapeId |-> shape.id,
                                    handleIndex |-> handle]
                      /\ gesture' = GestureStart("draggingArrowHandle")
                 [] OTHER ->
                      /\ UNCHANGED action
                      /\ gesture' = GestureIdle

\* handleAddPanelVertex(e, shape, edgeIndex): pointer-down on the marker in
\* the middle of edge edgeIndex of the selected panel (drawn with the select
\* tool).  The marker is pressed where the midpoint has whole coordinates
\* and while the panel has fewer than MaxVertices vertices.
\* (variant: the midpoint is pushed at the end of the vertex list)
WithMidpoint_appended(points, edgeIndex) ==
    LET n == Len(points)
        p1 == points[edgeIndex + 1]
        p2 == points[((edgeIndex + 1) % n) + 1]
    IN Append(points, Pt((p1.x + p2.x) \div 2, (p1.y + p2.y) \div 2))

\* handleAddPanelVertex: newPoints.splice(edgeIndex + 1, 0, newPoint)
WithMidpoint(points, edgeIndex) ==
    LET n == Len(points)
        p1 == points[edgeIndex + 1]
        p2 == points[((edgeIndex + 1) % n) + 1]
        newPoint == Pt((p1.x + p2.x) \div 2, (p1.y + p2.y) \div 2)
    IN [k \in 1..(n + 1) |->
           IF k <= edgeIndex + 1 THEN points[k]
           ELSE IF k = edgeIndex + 2 THEN newPoint
           ELSE points[k - 1]]

\* the pointer-down on the midpoint marker of an edge of a panel
EdgeDown(id, edgeIndex) ==
    DownEvent("edge") @@ [shape |-> id, edge |-> edgeIndex]

handleAddPanelVertex(i, edgeIndex) ==
    /\ action.type = "none"
    /\ i \in 1..Len(shapes)
    /\ Event(EdgeDown(shapes[i].id, edgeIndex))
    /\ UNCHANGED editingShapeId
    /\ selectedShapeId = shapes[i].id
    /\ shapes[i].type = "panel"
    /\ activeTool = "select"
    /\ edgeIndex \in 0..(Len(shapes[i].points) - 1)
    /\ Len(shapes[i].points) < MaxVertices
    /\ shapesHistoryIndex + 3 <= MaxHistory
    /\ UNCHANGED << viewTransform, clock, viewOps, selectedShapeId, activeTool >>
    /\ LET shape == shapes[i]
           n == Len(shape.points)
           p1 == shape.points[edgeIndex + 1]
           p2 == shape.points[((edgeIndex + 1) % n) + 1]
           newPoints == WithMidpoint(shape.points, edgeIndex)
           newShapes ==
               [k \in 1..Len(shapes) |->
                   IF shapes[k].id = shape.id /\ shapes[k].type = "panel"
                   THEN [shapes[k] EXCEPT !.points = newPoints]
                   ELSE shapes[k]]
       IN /\ (p1.x + p2.x) % 2 = 0
          /\ (p1.y + p2.y) % 2 = 0
          /\ handleShapesChange(newShapes, TRUE)
          /\ action' = [type |-> "editingPanelVertex",
                        shapeId |-> shape.id,
                        vertexIndex |-> edgeIndex + 1]
          /\ gesture' = [phase |-> "active", kind |-> "editingPanelVertex",
                         before |-> newShapes,
                         len0 |-> shapesHistoryIndex + 2,
                         idx0 |-> shapesHistoryIndex + 1,
                         moves |-> 0, clean |-> TRUE]

\* --------------------------------------------------- pointer: mouse move
\* (variant: the box starts at the pointer-down point)
CreatingFrame_fromStart(list, a, pos) ==
    LET startX == a.shape.x
        startY == a.shape.y
        newWidth == Abs(pos.x - startX)
        newHeight == Abs(pos.y - startY)
        Upd(s) ==
            IF s.id # a.shape.id THEN s
            ELSE IF a.shape.type = "arrow"
            THEN [s EXCEPT !.points = << s.points[1], pos >>]
            ELSE IF s.type = "panel"
            THEN [s EXCEPT !.x = startX, !.y = startY,
                           !.width = newWidth, !.height = newHeight,
                           !.points = << Pt(startX, startY),
                                         Pt(startX + newWidth, startY),
                                         Pt(startX + newWidth, startY + newHeight),
                                         Pt(startX, startY + newHeight) >>]
            ELSE [s EXCEPT !.x = startX, !.y = startY,
                           !.width = newWidth, !.height = newHeight]
    IN MapSeq(list, Upd)

\* case 'creating'
CreatingFrame(list, a, pos) ==
    LET startX == a.shape.x
        startY == a.shape.y
        newX == Min2(pos.x, startX)
        newY == Min2(pos.y, startY)
        newWidth == Abs(pos.x - startX)
        newHeight == Abs(pos.y - startY)
        Upd(s) ==
            IF s.id # a.shape.id THEN s
            ELSE IF a.shape.type = "arrow"
            THEN [s EXCEPT !.points = << s.points[1], pos >>]
            ELSE IF s.type = "panel"
            THEN [s EXCEPT !.x = newX, !.y = newY,
                           !.width = newWidth, !.height = newHeight,
                           !.points = << Pt(newX, newY),
                                         Pt(newX + newWidth, newY),
                                         Pt(newX + newWidth, newY + newHeight),
                                         Pt(newX, newY + newHeight) >>]
            ELSE [s EXCEPT !.x = newX, !.y = newY,
                           !.width = newWidth, !.height = newHeight]
    IN MapSeq(list, Upd)

\* case 'drawing'
DrawingFrame(list, a, pos) ==
    LET newCurrentStroke == Append(a.currentStroke, pos)
        Upd(s) ==
            IF s.id = a.shapeId /\ s.type = "drawing"
            THEN [s EXCEPT !.points = [@ EXCEPT ![Len(@)] = newCurrentStroke]]
            ELSE s
    IN MapSeq(list, Upd)

\* case 'dragging'
DraggingFrame(list, a, pos) ==
    LET Upd(s) ==
            IF s.id # a.shapeId THEN s
            ELSE
            LET newX == pos.x - a.startOffset.x
                newY == pos.y - a.startOffset.y
                dx == newX - s.x
                dy == newY - s.y
                Move(p) == Pt(p.x + dx, p.y + dy)
            IN CASE s.type = "panel" ->
                      LET newPoints == MapSeq(s.points, Move)
                          xs == Xs(newPoints)
                          ys == Ys(newPoints)
                      IN [s EXCEPT !.points = newPoints,
                                   !.x = MinOf(xs), !.y = MinOf(ys),
                                   !.width = MaxOf(xs) - MinOf(xs),
                                   !.height = MaxOf(ys) - MinOf(ys)]
                 [] s.type = "arrow" ->
                      [s EXCEPT !.points = MapSeq(s.points, Move),
                                !.x = newX, !.y = newY]
                 [] s.type = "drawing" ->
                      [s EXCEPT !.points =
                                    [k \in 1..Len(s.points) |->
                                        MapSeq(s.points[k], Move)],
                                !.x = newX, !.y = newY]
                 [] s.type = "bubble" ->
                      [s EXCEPT !.x = newX, !.y = newY,
                                !.tail = IF s.tail # None
                                         THEN Some(Move(s.tail[1]))
                                         ELSE None]
                 [] s.type = "image" ->
                      [s EXCEPT !.x = newX, !.y = newY,
                                !.pose =
                                    IF s.pose # None /\ s.pose[1].type = "skeleton"
                                    THEN Some([s.pose[1] EXCEPT !.data =
                                             TranslateSkeleton(@, dx, dy)])
                                    ELSE s.pose]
                 [] OTHER -> [s EXCEPT !.x = newX, !.y = newY]
    IN MapSeq(list, Upd)

\* (variant: both axes are scaled by the horizontal factor)
ResizedSkeleton_uniform(data, originalShape, current, x, y, width, height) ==
    LET scaleX == Rat(width, originalShape.width)
    IN [j \in DOMAIN data |->
           LET relativeX == RSub(data[j].x, RInt(originalShape.x))
               relativeY == RSub(data[j].y, RInt(originalShape.y))
           IN RPt(RAdd(RInt(x), RMul(relativeX, scaleX)),
                  RAdd(RInt(y), RMul(relativeY, scaleX)))]

\* the joints of the resized image: each original joint, relative to the
\* original origin, scaled by width / original width (height likewise) and
\* placed at the new origin.  current is the shape of the previous frame.
ResizedSkeleton(data, originalShape, current, x, y, width, height) ==
    LET scaleX == Rat(width, originalShape.width)
        scaleY == Rat(height, originalShape.height)
    IN [j \in DOMAIN data |->
           LET relativeX == RSub(data[j].x, RInt(originalShape.x))
               relativeY == RSub(data[j].y, RInt(originalShape.y))
           IN RPt(RAdd(RInt(x), RMul(relativeX, scaleX)),
                  RAdd(RInt(y), RMul(relativeY, scaleY)))]

\* case 'resizing'
ResizingFrame(list, a, pos) ==
    LET originalShape == a.originalShape
        right == HandleIncludes(a.handle, "right")
        bottom == HandleIncludes(a.handle, "bottom")
        left == HandleIncludes(a.handle, "left")
        top == HandleIncludes(a.handle, "top")
        newWidth == Max2(20 * U, (originalShape.x + originalShape.width) - pos.x)
        newHeight == Max2(20 * U, (originalShape.y + originalShape.height) - pos.y)
        width == IF left THEN newWidth
                 ELSE IF right THEN Max2(20 * U, pos.x - originalShape.x)
                 ELSE originalShape.width
        height == IF top THEN newHeight
                  ELSE IF bottom THEN Max2(20 * U, pos.y - originalShape.y)
                  ELSE originalShape.height
        x == IF left THEN (originalShape.x + originalShape.width) - newWidth
             ELSE originalShape.x
        y == IF top THEN (originalShape.y + originalShape.height) - newHeight
             ELSE originalShape.y
        Upd(s) ==
            IF s.id # a.shapeId THEN s
            ELSE LET updatedShape == [s EXCEPT !.x = x, !.y = y,
                                               !.width = width, !.height = height]
                 IN IF /\ s.type = "image" /\ originalShape.type = "image"
                       /\ originalShape.width > 0 /\ originalShape.height > 0
                       /\ s.pose # None /\ s.pose[1].type = "skeleton"
                       /\ originalShape.pose # None
                       /\ originalShape.pose[1].type = "skeleton"
                    THEN [updatedShape EXCEPT !.pose =
                             Some([s.pose[1] EXCEPT !.data =
                                 ResizedSkeleton(originalShape.pose[1].data,
                                                 originalShape, s,
                                                 x, y, width, height)])]
                    ELSE updatedShape
    IN MapSeq(list, Upd)

\* case 'draggingTail'
TailFrame(list, a, pos) ==
    LET Upd(s) == IF s.id = a.shapeId THEN [s EXCEPT !.tail = Some(pos)] ELSE s
    IN MapSeq(list, Upd)

\* case 'editingPanelVertex': the vertex is replaced, nothing else
VertexFrame(list, a, pos) ==
    LET Upd(s) ==
            IF s.id # a.shapeId \/ s.type # "panel" THEN s
            ELSE [s EXCEPT !.points[a.vertexIndex + 1] = pos]
    IN MapSeq(list, Upd)

\* case 'draggingArrowHandle'
ArrowHandleFrame(list, a, pos) ==
    LET Upd(s) ==
            IF s.id = a.shapeId /\ s.type = "arrow"
            THEN [s EXCEPT !.points[a.handleIndex + 1] = pos]
            ELSE s
    IN MapSeq(list, Upd)

\* handleMouseMove
\* (variant: the pointer offset is added to the current translation)
PanView_accumulating(a, screen) ==
    [scale |-> a.startVT.scale,
     x |-> RAdd(viewTransform.x, RInt(screen.x - a.startPos.x)),
     y |-> RAdd(viewTransform.y, RInt(screen.y - a.startPos.y))]

\* handleMouseMove, panning: startVT translated by the pointer's screen offset
PanView(a, screen) ==
    [scale |-> a.startVT.scale,
     x |-> RAdd(a.startVT.x, RInt(screen.x - a.startPos.x)),
     y |-> RAdd(a.startVT.y, RInt(screen.y - a.startPos.y))]

handleMouseMove(pos, screen) ==
    /\ Event(IF action.type = "panning" THEN PanEvent(screen) ELSE MoveEvent(pos))
    /\ UNCHANGED editingShapeId
    /\ action.type # "none"
    /\ UNCHANGED << activeTool, selectedShapeId, clock >>
    /\ CASE action.type = "panning" ->
              /\ viewTransform' = PanView(action, screen)
              /\ NoHistoryOp
              /\ UNCHANGED << action, gesture, viewOps >>
         [] action.type = "creating" ->
              /\ gesture.moves < MaxMoves
              /\ handleShapesChange(CreatingFrame(shapes, action, pos), FALSE)
              /\ gesture' = [gesture EXCEPT !.moves = @ + 1]
              /\ UNCHANGED << action, viewTransform, viewOps >>
         [] action.type = "drawing" ->
              /\ gesture.moves < MaxMoves
              /\ handleShapesChange(DrawingFrame(shapes, action, pos), FALSE)
              /\ action' = [action EXCEPT !.currentStroke = Append(@, pos)]
              /\ gesture' = [gesture EXCEPT !.moves = @ + 1]
              /\ UNCHANGED << viewTransform, viewOps >>
         [] action.type = "dragging" ->
              /\ gesture.moves < MaxMoves
              /\ handleShapesChange(DraggingFrame(shapes, action, pos), FALSE)
              /\ gesture' = [gesture EXCEPT !.moves = @ + 1]
              /\ UNCHANGED << action, viewTransform, viewOps >>
         [] action.type = "resizing" ->
              /\ gesture.moves < MaxMoves
              /\ handleShapesChange(ResizingFrame(shapes, action, pos), FALSE)
              /\ gesture' = [gesture EXCEPT !.moves = @ + 1]
              /\ UNCHANGED << action, viewTransform, viewOps >>
         [] action.type = "draggingTail" ->
              /\ gesture.moves < MaxMoves
              /\ handleShapesChange(TailFrame(shapes, action, pos), FALSE)
              /\ gesture' = [gesture EXCEPT !.moves = @ + 1]
              /\ UNCHANGED << action, viewTransform, viewOps >>
         [] action.type = "editingPanelVertex" ->
              /\ gesture.moves < MaxMoves
              /\ handleShapesChange(VertexFrame(shapes, action, pos), FALSE)
              /\ gesture' = [gesture EXCEPT !.moves = @ + 1]
              /\ UNCHANGED << action, viewTransform, viewOps >>
         [] action.type = "draggingArrowHandle" ->
              /\ gesture.moves < MaxMoves
              /\ handleShapesChange(ArrowHandleFrame(shapes, action, pos), FALSE)
              /\ gesture' = [gesture EXCEPT !.moves = @ + 1]
              /\ UNCHANGED << action, viewTransform, viewOps >>

\* ----------------------------------------------------- pointer: mouse up
\* (variant: only panels are tested)
BelowMinimumSize_panelOnly(shape) ==
    /\ shape.type = "panel"
    /\ shape.width < 10 * U \/ shape.height < 10 * U

\* the minimum-size test of handleMouseUp
BelowMinimumSize(shape) ==
    /\ shape.type \in { "bubble", "panel" }
    /\ shape.width < 10 * U \/ shape.height < 10 * U

ActionShapeId(a) == IF a.type = "creating" THEN a.shape.id ELSE a.shapeId

WithoutId(list, id) == SelectSeq(list, LAMBDA s : s.id # id)

\* the list handleMouseUp commits
MouseUpShapes(list, a) ==
    IF HasId(list, ActionShapeId(a)) /\ BelowMinimumSize(FindShape(list, ActionShapeId(a)))
    THEN WithoutId(list, ActionShapeId(a))
    ELSE list

\* (variant: the release of a panel vertex is not committed)
handleMouseUp_vertexUncommitted ==
    /\ Event(UpEvent)
    /\ UNCHANGED editingShapeId
    /\ action.type # "none"
    /\ action' = NoAction
    /\ UNCHANGED << viewTransform, clock >>
    /\ IF action.type = "creating"
       THEN /\ activeTool' = "select"
            /\ selectedShapeId' = action.shape.id
       ELSE UNCHANGED << activeTool, selectedShapeId >>
    /\ IF action.type = "panning"
       THEN /\ viewOps' = viewOps + 1
            /\ NoHistoryOp
            /\ UNCHANGED << gesture >>
       ELSE /\ IF action.type = "editingPanelVertex"
               THEN NoHistoryOp
               ELSE handleShapesChange(MouseUpShapes(shapes, action), TRUE)
            /\ gesture' = [gesture EXCEPT !.phase = "done"]
            /\ UNCHANGED viewOps

\* handleMouseUp (also run by onMouseLeave)
handleMouseUp ==
    /\ Event(UpEvent)
    /\ UNCHANGED editingShapeId
    /\ action.type # "none"
    /\ action' = NoAction
    /\ UNCHANGED << viewTransform, clock >>
    /\ IF action.type = "creating"
       THEN /\ activeTool' = "select"
            /\ selectedShapeId' = action.shape.id
       ELSE UNCHANGED << activeTool, selectedShapeId >>
    /\ IF action.type = "panning"
       THEN /\ viewOps' = viewOps + 1
            /\ NoHistoryOp
            /\ UNCHANGED << gesture >>
       ELSE /\ handleShapesChange(MouseUpShapes(shapes, action), TRUE)
            /\ gesture' = [gesture EXCEPT !.phase = "done"]
            /\ UNCHANGED viewOps

\* handleMouseUp with no action in progress (a release after a click that
\* started nothing, or the pointer leaving the svg)
handleMouseUpIdle ==
    /\ Event(UpEvent)
    /\ action.type = "none"
    /\ action' = NoAction
    /\ NoHistoryOp
    /\ UNCHANGED << editingShapeId, viewTransform, clock, activeTool,
                    selectedShapeId, gesture, viewOps >>

\* ------------------------------------------------------- view transform
\* ASPECT_RATIO_CONFIG['A4'] and the size of the svg viewport
canvasConfig == [w |-> 595, h |-> 842]
viewport == [width |-> 800, height |-> 600]

\* (variant: the scale of the buttons is not clamped)
ZoomedView_unclamped(vt, direction) ==
    LET centerX == Rat(viewport.width, 2)
        centerY == Rat(viewport.height, 2)
        scaleFactor == Rat(125, 100)
        newScale == IF direction = "in" THEN RMul(vt.scale, scaleFactor)
                    ELSE RDiv(vt.scale, scaleFactor)
        ratio == RDiv(newScale, vt.scale)
    IN [scale |-> newScale,
        x |-> RSub(centerX, RMul(RSub(centerX, vt.x), ratio)),
        y |-> RSub(centerY, RMul(RSub(centerY, vt.y), ratio))]

\* handleMouseMove, case 'panning' is above; zoom(direction) of the buttons
ZoomedView(vt, direction) ==
    LET centerX == Rat(viewport.width, 2)
        centerY == Rat(viewport.height, 2)
        scaleFactor == Rat(125, 100)
        newScale == IF direction = "in" THEN RMul(vt.scale, scaleFactor)
                    ELSE RDiv(vt.scale, scaleFactor)
        clampedScale == RMax(Rat(1, 10), RMin(newScale, RInt(10)))
        ratio == RDiv(clampedScale, vt.scale)
    IN [scale |-> clampedScale,
        x |-> RSub(centerX, RMul(RSub(centerX, vt.x), ratio)),
        y |-> RSub(centerY, RMul(RSub(centerY, vt.y), ratio))]

zoom(direction) ==
    /\ Step
    /\ UNCHANGED editingShapeId
    /\ viewOps < MaxViewOps
    /\ action.type = "none"
    /\ viewTransform' = ZoomedView(viewTransform, direction)
    /\ viewOps' = viewOps + 1
    /\ NoHistoryOp
    /\ UNCHANGED << activeTool, action, selectedShapeId, clock, gesture >>

\* getMousePos: screen point to document point under a view transform
ScreenToDocument(vt, screen) ==
    RPt(RDiv(RSub(RInt(screen.x), vt.x), vt.scale),
        RDiv(RSub(RInt(screen.y), vt.y), vt.scale))

\* (variant: the pan is corrected by the unclamped scale)
WheelView_unclampedRatio(vt, mouse, direction) ==
    LET scaleFactor == Rat(11, 10)
        newScale == IF direction = "in" THEN RMul(vt.scale, scaleFactor)
                    ELSE RDiv(vt.scale, scaleFactor)
        clampedScale == RMax(Rat(1, 10), RMin(newScale, RInt(10)))
        ratio == RDiv(newScale, vt.scale)
    IN [scale |-> clampedScale,
        x |-> RSub(RInt(mouse.x), RMul(RSub(RInt(mouse.x), vt.x), ratio)),
        y |-> RSub(RInt(mouse.y), RMul(RSub(RInt(mouse.y), vt.y), ratio))]

\* the transform computed by handleWheel; direction "in" is deltaY < 0
WheelView(vt, mouse, direction) ==
    LET scaleFactor == Rat(11, 10)
        newScale == IF direction = "in" THEN RMul(vt.scale, scaleFactor)
                    ELSE RDiv(vt.scale, scaleFactor)
        clampedScale == RMax(Rat(1, 10), RMin(newScale, RInt(10)))
        ratio == RDiv(clampedScale, vt.scale)
    IN [scale |-> clampedScale,
        x |-> RSub(RInt(mouse.x), RMul(RSub(RInt(mouse.x), vt.x), ratio)),
        y |-> RSub(RInt(mouse.y), RMul(RSub(RInt(mouse.y), vt.y), ratio))]

\* handleWheel; the svg's left top corner is the screen origin
handleWheel(screen, direction) ==
    /\ Event(WheelEvent(screen, direction))
    /\ viewOps < MaxViewOps
    /\ viewTransform' = WheelView(viewTransform, screen, direction)
    /\ viewOps' = viewOps + 1
    /\ NoHistoryOp
    /\ UNCHANGED << activeTool, action, selectedShapeId, editingShapeId, clock,
                    gesture >>

\* fitAndCenterCanvas
FittedView ==
    LET scaleX == Rat(viewport.width, canvasConfig.w)
        scaleY == Rat(viewport.height, canvasConfig.h)
        scale == RMul(RMin(scaleX, scaleY), Rat(9, 10))
    IN [scale |-> scale,
        x |-> RDiv(RSub(RInt(viewport.width), RMul(RInt(canvasConfig.w), scale)),
                   RInt(2)),
        y |-> RDiv(RSub(RInt(viewport.height), RMul(RInt(canvasConfig.h), scale)),
                   RInt(2))]

fitAndCenterCanvas ==
    /\ Step
    /\ UNCHANGED editingShapeId
    /\ viewOps < MaxViewOps
    /\ action.type = "none"
    /\ viewTransform' = FittedView
    /\ viewOps' = viewOps + 1
    /\ NoHistoryOp
    /\ UNCHANGED << activeTool, action, selectedShapeId, clock, gesture >>

\* ------------------------------------------------- toolbar and keyboard
\* the tool buttons: setActiveTool(tool)
setActiveTool(tool) ==
    /\ Step
    /\ UNCHANGED editingShapeId
    /\ action.type = "none"
    /\ tool # activeTool
    /\ activeTool' = tool
    /\ gesture' = IF gesture.phase = "done" THEN GestureIdle ELSE gesture
    /\ NoHistoryOp
    /\ UNCHANGED << viewTransform, action, selectedShapeId, clock, viewOps >>

\* (variant: the toolbar undo steps back without looking at the index)
handleUndo_unguarded ==
    /\ Step
    /\ UNCHANGED editingShapeId
    /\ shapesHistoryIndex' = shapesHistoryIndex - 1
    /\ shapes' = IF shapesHistoryIndex > 0
                 THEN shapesHistory[shapesHistoryIndex]
                 ELSE << >>
    /\ UNCHANGED << shapesHistory, sceneDescription >>
    /\ historyOp' = HistoryOp("undo")
    /\ replay' = ReplayUndo
    /\ gesture' = GestureDisturbed
    /\ UNCHANGED << viewTransform, activeTool, action, selectedShapeId, clock,
                    viewOps >>

\* handleUndo, as called by the toolbar button or Ctrl/Cmd+Z
handleUndo ==
    /\ Step
    /\ UNCHANGED editingShapeId
    /\ UndoPage
    /\ gesture' = GestureDisturbed
    /\ UNCHANGED << viewTransform, activeTool, action, selectedShapeId, clock,
                    viewOps >>

\* handleRedo, as called by the toolbar button or Ctrl/Cmd+Shift+Z / Ctrl+Y
handleRedo ==
    /\ Step
    /\ UNCHANGED editingShapeId
    /\ RedoPage
    /\ gesture' = GestureDisturbed
    /\ UNCHANGED << viewTransform, activeTool, action, selectedShapeId, clock,
                    viewOps >>

\* Ctrl/Cmd+Z of handleKeyDown: canUndo && onUndo(); without canUndo the
\* handler changes nothing
handleKeyDownUndo ==
    /\ Event(KeyEvent("Ctrl+Z"))
    /\ canUndo
    /\ UndoPage
    /\ gesture' = GestureDisturbed
    /\ UNCHANGED << viewTransform, activeTool, action, selectedShapeId,
                    editingShapeId, clock, viewOps >>

\* Ctrl/Cmd+Shift+Z and Ctrl/Cmd+Y of handleKeyDown: canRedo && onRedo();
\* without canRedo the handler changes nothing
handleKeyDownRedo(key) ==
    /\ Event(KeyEvent(key))
    /\ canRedo
    /\ RedoPage
    /\ gesture' = GestureDisturbed
    /\ UNCHANGED << viewTransform, activeTool, action, selectedShapeId,
                    editingShapeId, clock, viewOps >>

\* the Delete / Backspace key binding with a shape selected:
\* deleteShape(selectedShapeId) unless the text box or the pose editor is open
handleKeyDownDelete ==
    /\ Event(KeyEvent("Delete"))
    /\ UNCHANGED editingShapeId
    /\ selectedShapeId # Null
    /\ IF editingShapeId = Null /\ posingCharacter = None
       THEN /\ shapesHistoryIndex + 2 <= MaxHistory
            /\ handleShapesChange(WithoutId(shapes, selectedShapeId), TRUE)
            /\ selectedShapeId' = Null
       ELSE /\ NoHistoryOp
            /\ UNCHANGED selectedShapeId
    /\ gesture' = GestureDisturbed
    /\ UNCHANGED << viewTransform, activeTool, action, clock, viewOps >>

\* the Escape key binding (and Escape / Enter typed in the text box)
handleKeyDownEscape ==
    /\ UserEvent(KeyEvent("Escape"))
    /\ viewMode = "editor"
    /\ editingShapeId # Null \/ posingCharacter # None
    /\ editingShapeId' = Null
    /\ posingCharacter' = None
    /\ skeletonPose' = None
    /\ UNCHANGED << characters, assistantProposalImage, isSpacePressed >>
    /\ NoHistoryOp
    /\ gesture' = GestureDisturbed
    /\ UNCHANGED << viewTransform, activeTool, action, selectedShapeId, clock,
                    viewOps >>

\* handleShapeDoubleClick(e, shape) for the shape at list position i
handleShapeDoubleClick(i) ==
    /\ Step
    /\ action.type = "none"
    /\ i \in 1..Len(shapes)
    /\ shapes[i].type \in { "text", "bubble" }
    /\ editingShapeId # shapes[i].id
    /\ editingShapeId' = shapes[i].id
    /\ NoHistoryOp
    /\ gesture' = GestureDisturbed
    /\ UNCHANGED << viewTransform, activeTool, action, selectedShapeId, clock,
                    viewOps >>

\* the text box is mounted while the shape being edited is in the scene
TextBoxMounted == editingShapeId # Null /\ HasId(shapes, editingShapeId)

WithText(list, id, text) ==
    [k \in 1..Len(list) |->
        IF list[k].id = id THEN [list[k] EXCEPT !.text = text] ELSE list[k]]

\* onChange of the text box
handleTextBoxChange(text) ==
    /\ Step
    /\ TextBoxMounted
    /\ FindShape(shapes, editingShapeId).type \in { "text", "bubble" }
    /\ FindShape(shapes, editingShapeId).text # text
    /\ handleShapesChange(WithText(shapes, editingShapeId, text), FALSE)
    /\ gesture' = GestureDisturbed
    /\ UNCHANGED << viewTransform, activeTool, action, selectedShapeId,
                    editingShapeId, clock, viewOps >>

\* onBlur of the text box
handleTextBoxBlur ==
    /\ Step
    /\ TextBoxMounted
    /\ shapesHistoryIndex + 2 <= MaxHistory
    /\ handleShapesChange(shapes, TRUE)
    /\ editingShapeId' = Null
    /\ gesture' = GestureDisturbed
    /\ UNCHANGED << viewTransform, activeTool, action, selectedShapeId, clock,
                    viewOps >>

\* clearCanvas
clearCanvas ==
    /\ Step
    /\ UNCHANGED editingShapeId
    /\ action.type = "none"
    /\ shapes # << >>
    /\ shapesHistoryIndex + 2 <= MaxHistory
    /\ handleShapesChange(<< >>, TRUE)
    /\ gesture' = GestureDisturbed
    /\ UNCHANGED << viewTransform, activeTool, action, selectedShapeId, clock,
                    viewOps >>

\* --------------------------------------------------------- character drop
Panels(list) == SelectSeq(list, LAMBDA s : s.type = "panel")

\* (variant: the scan runs forwards and stops at the first hit)
DroppedOnPanelIndex_firstHit(list, point) ==
    LET panels == Panels(list)
        hits == { i \in 1..Len(panels) : isPointInPolygon(point, panels[i].points) }
    IN IF hits = {} THEN -1
       ELSE (CHOOSE i \in hits : \A j \in hits : i <= j) - 1

\* the reverse scan of handleDrop; -1 when no panel contains the point
DroppedOnPanelIndex(list, point) ==
    LET panels == Panels(list)
        hits == { i \in 1..Len(panels) : isPointInPolygon(point, panels[i].points) }
    IN IF hits = {} THEN -1
       ELSE (CHOOSE i \in hits : \A j \in hits : j <= i) - 1

NewImage(id, character, point, panelIndex) ==
    LET charWidth == 150 * U
        charHeight == 250 * U
        charX == point.x - charWidth \div 2
        charY == point.y - charHeight \div 2
    IN [id |-> id, type |-> "image", href |-> "sheet",
        characterId |-> character.id, panelIndex |-> panelIndex,
        x |-> charX, y |-> charY, width |-> charWidth, height |-> charHeight,
        pose |-> Some([type |-> "skeleton", preset |-> "full",
                       data |-> createInitialSkeleton(charX, charY,
                                                      charWidth, charHeight),
                       comment |-> ""])]

handleDrop(c, point) ==
    /\ Event(DropEvent(point))
    /\ UNCHANGED editingShapeId
    /\ action.type = "none"
    /\ c \in 1..Len(characters)
    /\ DroppedOnPanelIndex(shapes, point) # -1
    /\ CanCreate
    /\ handleShapesChange(
           Append(shapes, NewImage(clock, characters[c], point,
                                   DroppedOnPanelIndex(shapes, point))), TRUE)
    /\ clock' = clock + 1
    /\ gesture' = GestureDisturbed
    /\ UNCHANGED << viewTransform, activeTool, action, selectedShapeId, viewOps >>

\* ------------------------------------------------- space key, bubble tail
\* keydown of the space key (a repeated keydown finds the flag set): the
\* flag is set unless the text box is open
handleKeyDownSpace ==
    /\ UserEvent(KeyEvent(" "))
    /\ viewMode = "editor"
    /\ ~isSpacePressed
    /\ isSpacePressed' = (editingShapeId = Null /\ posingCharacter = None)
    /\ UNCHANGED << posingCharacter, skeletonPose >>
    /\ NoHistoryOp
    /\ gesture' = GestureDisturbed
    /\ UNCHANGED << viewTransform, activeTool, action, selectedShapeId,
                    editingShapeId, clock, viewOps, characters,
                    assistantProposalImage >>

\* handleKeyUp of the space key
handleKeyUpSpace ==
    /\ UserEvent(KeyEvent("up"))
    /\ viewMode = "editor"
    /\ UNCHANGED << posingCharacter, skeletonPose >>
    /\ isSpacePressed
    /\ isSpacePressed' = FALSE
    /\ NoHistoryOp
    /\ gesture' = GestureDisturbed
    /\ UNCHANGED << viewTransform, activeTool, action, selectedShapeId,
                    editingShapeId, clock, viewOps, characters,
                    assistantProposalImage >>

\* the tail of addBubbleTail: below the middle of the bottom edge (the
\* widths of the model are even numbers of half units)
WithTail(list, id) ==
    LET Upd(s) ==
            IF s.id = id /\ s.type = "bubble"
            THEN LET bbox == getShapeBBox(s)
                 IN [s EXCEPT !.tail = Some(Pt(bbox.x + bbox.width \div 2,
                                               bbox.y + bbox.height + 30 * U))]
            ELSE s
    IN MapSeq(list, Upd)

\* addBubbleTail(shapeId), the button under the selected bubble without a
\* tail, for the shape at list position i
addBubbleTail(i) ==
    /\ Step
    /\ action.type = "none"
    /\ i \in 1..Len(shapes)
    /\ selectedShapeId = shapes[i].id
    /\ shapes[i].type = "bubble"
    /\ shapes[i].tail = None
    /\ shapesHistoryIndex + 2 <= MaxHistory
    /\ handleShapesChange(WithTail(shapes, shapes[i].id), TRUE)
    /\ gesture' = GestureDisturbed
    /\ UNCHANGED << viewTransform, activeTool, action, selectedShapeId,
                    editingShapeId, clock, viewOps >>

\* ------------------------------------------------------- App: page edits
\* handleGenerateLayoutProposal: the proposal is cleared, then set when the
\* service answers (ok) and left cleared when it fails
handleGenerateLayoutProposal(ok) ==
    /\ UserEvent(NoEvent)
    /\ UNCHANGED << posingCharacter, skeletonPose >>
    /\ action.type = "none"
    /\ assistantProposalImage' = IF ok THEN Some("proposal") ELSE None
    /\ NoHistoryOp
    /\ gesture' = GestureDisturbed
    /\ UNCHANGED << viewTransform, activeTool, action, selectedShapeId,
                    editingShapeId, clock, viewOps, characters, isSpacePressed >>

\* handleApplyLayout: handleUpdateCurrentPage({ ..., shapes: [] })
handleApplyLayout ==
    /\ UserEvent(NoEvent)
    /\ UNCHANGED << posingCharacter, skeletonPose >>
    /\ action.type = "none"
    /\ assistantProposalImage # None
    /\ shapes' = << >>
    /\ UNCHANGED << shapesHistory, shapesHistoryIndex, sceneDescription >>
    /\ historyOp' = NoOp
    /\ replay' = ReplayOff
    /\ gesture' = GestureDisturbed
    /\ UNCHANGED << viewTransform, activeTool, action, selectedShapeId,
                    editingShapeId, clock, viewOps, characters,
                    assistantProposalImage, isSpacePressed >>

\* handleDeleteCharacter(idToDelete) for the character at list position c
handleDeleteCharacter(c) ==
    /\ UserEvent(NoEvent)
    /\ UNCHANGED << posingCharacter, skeletonPose >>
    /\ action.type = "none"
    /\ c \in 1..Len(characters)
    /\ LET idToDelete == characters[c].id
       IN /\ characters' = SelectSeq(characters, LAMBDA x : x.id # idToDelete)
          /\ shapes' = SelectSeq(shapes, LAMBDA s :
                            s.type # "image" \/ s.characterId # idToDelete)
    /\ UNCHANGED << shapesHistory, shapesHistoryIndex, sceneDescription >>
    /\ historyOp' = NoOp
    /\ replay' = ReplayOff
    /\ gesture' = GestureDisturbed
    /\ UNCHANGED << viewTransform, activeTool, action, selectedShapeId,
                    editingShapeId, clock, viewOps, assistantProposalImage,
                    isSpacePressed >>

\* ------------------------------------------------------------ bubble path
RAbs(a) == IF a.num < 0 THEN Rat(-a.num, a.den) ELSE a

\* Math.sqrt on the squares of whole numbers
Sqrt(n) == CHOOSE r \in 0..n : r * r = n

\* Math.sqrt on the squares of fractions
RSqrt(a) == Rat(Sqrt(a.num), Sqrt(a.den))

\* one command of an svg path: its letter and its numbers
Cmd(op, args) == [op |-> op, args |-> args]

\* bodyPath of getBubblePath
BubbleBodyPath(shape) ==
    LET x == RInt(shape.x)
        y == RInt(shape.y)
        width == RInt(shape.width)
        height == RInt(shape.height)
    IN IF shape.bubbleType = "oval"
       THEN LET rx == Rat(shape.width, 2)
                ry == Rat(shape.height, 2)
                cx == RAdd(x, rx)
                cy == RAdd(y, ry)
            IN << Cmd("M", << RSub(cx, rx), cy >>),
                  Cmd("a", << rx, ry, RInt(0), RInt(1), RInt(0), width, RInt(0) >>),
                  Cmd("a", << rx, ry, RInt(0), RInt(1), RInt(0),
                              RSub(RInt(0), width), RInt(0) >>) >>
       ELSE LET cornerRadius ==
                    IF shape.bubbleType = "rounded"
                    THEN RMin(RInt(20 * U),
                              RMin(Rat(shape.width, 2), Rat(shape.height, 2)))
                    ELSE RInt(0)
                right == RAdd(x, width)
                bottom == RAdd(y, height)
            IN << Cmd("M", << RAdd(x, cornerRadius), y >>),
                  Cmd("L", << RSub(right, cornerRadius), y >>),
                  Cmd("Q", << right, y, right, RAdd(y, cornerRadius) >>),
                  Cmd("L", << right, RSub(bottom, cornerRadius) >>),
                  Cmd("Q", << right, bottom, RSub(right, cornerRadius), bottom >>),
                  Cmd("L", << RAdd(x, cornerRadius), bottom >>),
                  Cmd("Q", << x, bottom, x, RSub(bottom, cornerRadius) >>),
                  Cmd("L", << x, RAdd(y, cornerRadius) >>),
                  Cmd("Q", << x, y, RAdd(x, cornerRadius), y >>),
                  Cmd("Z", << >>) >>

\* the point where the tail leaves the body: intersectX, intersectY.
\* cos and sin are those of angle = atan2(dy, dx).  For the oval, tan of
\* plus or minus Math.PI / 2 is a huge finite number with the sign of dy,
\* and Math.abs(angle) < Math.PI / 2 is false, so that a tail straight
\* below the centre leaves from the top of the oval and one straight
\* above it from the bottom (up to the last bits of a double).
BubbleIntersect(shape, dx, dy, cos, sin) ==
    LET centerX == RAdd(RInt(shape.x), Rat(shape.width, 2))
        centerY == RAdd(RInt(shape.y), Rat(shape.height, 2))
        rx == Rat(shape.width, 2)
        ry == Rat(shape.height, 2)
    IN IF shape.bubbleType = "oval"
       THEN IF dx.num = 0
            THEN RPt(centerX,
                     IF dy.num > 0 THEN RSub(centerY, ry) ELSE RAdd(centerY, ry))
            ELSE LET tanAngle == RDiv(dy, dx)
                     root == RSqrt(RAdd(RMul(ry, ry),
                                        RMul(RMul(rx, rx),
                                             RMul(tanAngle, tanAngle))))
                     side == IF dx.num > 0 THEN RInt(1) ELSE RInt(-1)
                 IN RPt(RAdd(centerX, RMul(RDiv(RMul(rx, ry), root), side)),
                        RAdd(centerY,
                             RMul(RDiv(RMul(RMul(rx, ry), tanAngle), root),
                                  side)))
       ELSE LET hasTX == RLess(Rat(1, 1000000), RAbs(cos))
                hasTY == RLess(Rat(1, 1000000), RAbs(sin))
                tX == RDiv(rx, RAbs(cos))
                tY == RDiv(ry, RAbs(sin))
                t == IF hasTX /\ hasTY THEN RMin(tX, tY)
                     ELSE IF hasTX THEN tX ELSE tY
            IN RPt(RAdd(centerX, RMul(t, cos)), RAdd(centerY, RMul(t, sin)))

\* the tail triangle: M p1 L tail L p2 Z
BubbleTailPath(shape, tail, dx, dy, cosAngle, sinAngle) ==
    LET intersect == BubbleIntersect(shape, dx, dy, cosAngle, sinAngle)
        tailWidth == RMul(RMin(RInt(shape.width), RInt(shape.height)),
                          Rat(15, 100))
        half == RMul(tailWidth, Rat(1, 2))
        p1x == RSub(intersect.x, RMul(sinAngle, half))
        p1y == RAdd(intersect.y, RMul(cosAngle, half))
        p2x == RAdd(intersect.x, RMul(sinAngle, half))
        p2y == RSub(intersect.y, RMul(cosAngle, half))
    IN << Cmd("M", << p1x, p1y >>),
          Cmd("L", << RInt(tail.x), RInt(tail.y) >>),
          Cmd("L", << p2x, p2y >>),
          Cmd("Z", << >>) >>

\* (variant: without the test for a tail at the centre; atan2(0, 0) is 0)
getBubblePath_noCentreTest(shape) ==
    IF shape.tail = None THEN BubbleBodyPath(shape)
    ELSE LET tail == shape.tail[1]
             centerX == RAdd(RInt(shape.x), Rat(shape.width, 2))
             centerY == RAdd(RInt(shape.y), Rat(shape.height, 2))
             dx == RSub(RInt(tail.x), centerX)
             dy == RSub(RInt(tail.y), centerY)
         IN IF dx.num = 0 /\ dy.num = 0
            THEN BubbleBodyPath(shape)
                 \o BubbleTailPath(shape, tail, RInt(1), dy, RInt(1), RInt(0))
            ELSE LET len == RSqrt(RAdd(RMul(dx, dx), RMul(dy, dy)))
                 IN BubbleBodyPath(shape)
                    \o BubbleTailPath(shape, tail, dx, dy,
                                      RDiv(dx, len), RDiv(dy, len))

\* getBubblePath: the path as its list of commands.  The tail is a point
\* whose offset from the centre has a length that is a fraction.
getBubblePath(shape) ==
    IF shape.tail = None THEN BubbleBodyPath(shape)
    ELSE LET tail == shape.tail[1]
             centerX == RAdd(RInt(shape.x), Rat(shape.width, 2))
             centerY == RAdd(RInt(shape.y), Rat(shape.height, 2))
             dx == RSub(RInt(tail.x), centerX)
             dy == RSub(RInt(tail.y), centerY)
         IN IF dx.num = 0 /\ dy.num = 0 THEN BubbleBodyPath(shape)
            ELSE LET len == RSqrt(RAdd(RMul(dx, dx), RMul(dy, dy)))
                 IN BubbleBodyPath(shape)
                    \o BubbleTailPath(shape, tail, dx, dy,
                                      RDiv(dx, len), RDiv(dy, len))

\* ------------------------------------------------------------ compositor
\* (variant: the fallback is the first point)
getPolygonCentroid_firstPoint(points) ==
    LET n == Len(points)
        Nxt(i) == IF i = n THEN 1 ELSE i + 1
        Cross(i) == points[i].x * points[Nxt(i)].y - points[Nxt(i)].x * points[i].y
        RECURSIVE Sum(_, _)
        Sum(F(_), i) == IF i = 0 THEN 0 ELSE F(i) + Sum(F, i - 1)
        area2 == Sum(Cross, n)
        cx == Sum(LAMBDA i : (points[i].x + points[Nxt(i)].x) * Cross(i), n)
        cy == Sum(LAMBDA i : (points[i].y + points[Nxt(i)].y) * Cross(i), n)
        fallback ==
            IF n = 0 THEN [x |-> RInt(0), y |-> RInt(0)]
            ELSE [x |-> RInt(points[1].x), y |-> RInt(points[1].y)]
    IN IF n < 3 THEN fallback
       ELSE IF area2 = 0 THEN fallback
       ELSE [x |-> Rat(cx, 3 * area2), y |-> Rat(cy, 3 * area2)]

\* getPolygonCentroid; the result is a pair of exact rationals
getPolygonCentroid(points) ==
    LET n == Len(points)
        Nxt(i) == IF i = n THEN 1 ELSE i + 1
        Cross(i) == points[i].x * points[Nxt(i)].y - points[Nxt(i)].x * points[i].y
        RECURSIVE Sum(_, _)
        Sum(F(_), i) == IF i = 0 THEN 0 ELSE F(i) + Sum(F, i - 1)
        area2 == Sum(Cross, n)
        cx == Sum(LAMBDA i : (points[i].x + points[Nxt(i)].x) * Cross(i), n)
        cy == Sum(LAMBDA i : (points[i].y + points[Nxt(i)].y) * Cross(i), n)
        bboxCenter ==
            IF n = 0 THEN [x |-> RInt(0), y |-> RInt(0)]
            ELSE [x |-> Rat(MinOf(Xs(points)) + MaxOf(Xs(points)), 2),
                  y |-> Rat(MinOf(Ys(points)) + MaxOf(Ys(points)), 2)]
    IN IF n < 3 THEN bboxCenter
       ELSE IF area2 = 0 THEN bboxCenter
       ELSE [x |-> Rat(cx, 3 * area2), y |-> Rat(cy, 3 * area2)]

skeletonConnections ==
    << << "head", "neck" >>, << "neck", "leftShoulder" >>,
       << "neck", "rightShoulder" >>, << "leftShoulder", "leftElbow" >>,
       << "leftElbow", "leftHand" >>, << "rightShoulder", "rightElbow" >>,
       << "rightElbow", "rightHand" >>, << "neck", "hips" >>,
       << "hips", "leftHip" >>, << "hips", "rightHip" >>,
       << "leftHip", "leftKnee" >>, << "leftKnee", "leftFoot" >>,
       << "rightHip", "rightKnee" >>, << "rightKnee", "rightFoot" >>,
       << "leftEye", "rightEye" >>, << "nose", "mouth" >> >>

\* the elements appended for one panel (index is its 0-based ordinal)
PanelElements(panel, index) ==
    << [el |-> "polygon", shape |-> panel.id, points |-> panel.points,
        strokeWidth |-> 4],
       [el |-> "text", shape |-> panel.id,
        at |-> getPolygonCentroid(panel.points), fontSize |-> 60,
        content |-> index + 1] >>

\* one pass of skeletonConnections.forEach: the line drawn for a
\* connection, or nothing when one of its joints is missing
SkeletonLine(data, c) ==
    IF c[1] \in DOMAIN data /\ c[2] \in DOMAIN data
    THEN Some(<< data[c[1]], data[c[2]] >>)
    ELSE None

\* the elements appended for one character cutout
ImageElements(img, charactersToDraw) ==
    LET found == { c \in 1..Len(charactersToDraw) :
                       charactersToDraw[c].id = img.characterId }
        poseEls ==
            IF img.pose = None THEN << >>
            ELSE IF img.pose[1].type = "skeleton"
            THEN << [el |-> "skeleton", shape |-> img.id,
                     lines |-> [k \in 1..Len(skeletonConnections) |->
                                   SkeletonLine(img.pose[1].data,
                                                skeletonConnections[k])],
                     circles |-> img.pose[1].data,
                     strokeWidth |-> 4, r |-> 6] >>
            ELSE << [el |-> "pose", shape |-> img.id, kind |-> img.pose[1].type,
                     x |-> img.x, y |-> img.y,
                     width |-> img.width, height |-> img.height] >>
        nameEls ==
            IF found = {} THEN << >>
            ELSE << [el |-> "text", shape |-> img.id,
                     at |-> [x |-> Rat(2 * img.x + img.width, 2),
                             y |-> Rat(2 * img.y + img.height, 2)],
                     fontSize |-> 20,
                     content |-> charactersToDraw[CHOOSE c \in found :
                                     \A d \in found : c <= d].name] >>
        commentEls ==
            IF img.pose # None /\ img.pose[1].type = "skeleton"
               /\ img.pose[1].comment # ""
            THEN << [el |-> "text", shape |-> img.id,
                     at |-> [x |-> Rat(2 * img.x + img.width, 2),
                             y |-> RInt(img.y + img.height + 20 * U)],
                     fontSize |-> 18, content |-> img.pose[1].comment] >>
            ELSE << >>
    IN poseEls \o nameEls \o commentEls

\* the elements appended for one bubble; the path is kept as the data
\* getBubblePath is computed from
BubbleElements(bubble) ==
    << [el |-> "path", shape |-> bubble.id, bubbleType |-> bubble.bubbleType,
        x |-> bubble.x, y |-> bubble.y,
        width |-> bubble.width, height |-> bubble.height,
        tail |-> bubble.tail, strokeWidth |-> 3],
       [el |-> "foreignObject", shape |-> bubble.id,
        x |-> bubble.x + 10 * U, y |-> bubble.y + 10 * U,
        width |-> bubble.width - 20 * U, height |-> bubble.height - 20 * U,
        content |-> bubble.text] >>

TextElements(t) ==
    << [el |-> "text", shape |-> t.id, at |-> [x |-> RInt(t.x), y |-> RInt(t.y)],
        fontSize |-> t.fontSize, content |-> t.text] >>

OfType(list, t) == SelectSeq(list, LAMBDA s : s.type = t)

\* the element list built by getLayoutAsImage, in append order
LayoutElements(list, includeCharacters, charactersToDraw) ==
    LET panels == OfType(list, "panel")
        images == OfType(list, "image")
        bubbles == OfType(list, "bubble")
        texts == OfType(list, "text")
    IN Flat([k \in 1..Len(panels) |-> PanelElements(panels[k], k - 1)])
       \o (IF includeCharacters
           THEN Flat([k \in 1..Len(images) |->
                         ImageElements(images[k], charactersToDraw)])
           ELSE << >>)
       \o Flat([k \in 1..Len(bubbles) |-> BubbleElements(bubbles[k])])
       \o Flat([k \in 1..Len(texts) |-> TextElements(texts[k])])

IdentityTransform == [scale |-> RInt(1), x |-> RInt(0), y |-> RInt(0)]

\* (variant: the content group keeps the live canvas group's transform)
getLayoutAsImage_liveGroup(list, view, includeCharacters, charactersToDraw) ==
    [width |-> canvasConfig.w, height |-> canvasConfig.h,
     transform |-> view,
     elements |-> LayoutElements(list, includeCharacters, charactersToDraw)]

\* getLayoutAsImage(includeCharacters, charactersToDraw): the svg that is
\* rasterised, as its size, the transform of its content group (none) and
\* its list of elements.  list and view are the shapes and viewTransform
\* props the closure was created with.
getLayoutAsImage(list, view, includeCharacters, charactersToDraw) ==
    [width |-> canvasConfig.w, height |-> canvasConfig.h,
     transform |-> IdentityTransform,
     elements |-> LayoutElements(list, includeCharacters, charactersToDraw)]

\* -------------------------------------------------- App: page generation
GenerateEvent(op) == [kind |-> "generate", key |-> "", op |-> op]

\* handleGenerateImage up to its await of generateMangaPage: the button of
\* the generation controls (shown while nothing is loading, enabled once
\* the script is not empty) or the regenerate button of the result view
handleGenerateImage ==
    /\ AppEvent(GenerateEvent("request"))
    /\ ~isLoading
    /\ sceneDescription # << >>
    /\ action.type = "none"
    /\ isLoading' = TRUE
    /\ NoHistoryOp
    /\ gesture' = GestureDisturbed
    /\ UNCHANGED << viewMode, viewTransform, activeTool, action,
                    selectedShapeId, editingShapeId, clock, viewOps,
                    characters, assistantProposalImage, isSpacePressed,
                    posingCharacter, skeletonPose >>

\* handleGenerateImage from the answer of generateMangaPage on: the result
\* (ok) updates the page's images and shows the result view, which takes
\* the place of the editor, whose state is lost; the error is only shown
generateMangaPageReturns(ok) ==
    /\ AppEvent(GenerateEvent(IF ok THEN "result" ELSE "error"))
    /\ isLoading
    /\ isLoading' = FALSE
    /\ NoHistoryOp
    /\ UNCHANGED << viewTransform, clock, viewOps, characters,
                    assistantProposalImage >>
    /\ IF ok /\ viewMode = "editor"
       THEN /\ viewMode' = "result"
            /\ activeTool' = "select"
            /\ action' = NoAction
            /\ selectedShapeId' = Null
            /\ editingShapeId' = Null
            /\ isSpacePressed' = FALSE
            /\ posingCharacter' = None
            /\ skeletonPose' = None
            /\ gesture' = GestureIdle
       ELSE /\ gesture' = GestureDisturbed
            /\ UNCHANGED << viewMode, activeTool, action, selectedShapeId,
                            editingShapeId, isSpacePressed, posingCharacter,
                            skeletonPose >>

\* onReturnToEditor of the result view: the editor is mounted afresh
onReturnToEditor ==
    /\ AppEvent(GenerateEvent("return"))
    /\ viewMode = "result"
    /\ viewMode' = "editor"
    /\ NoHistoryOp
    /\ UNCHANGED << isLoading, viewTransform, activeTool, action,
                    selectedShapeId, editingShapeId, clock, viewOps, gesture,
                    characters, assistantProposalImage, isSpacePressed,
                    posingCharacter, skeletonPose >>

\* ------------------------------------------------------ the pose editor
\* JavaScript arithmetic on numbers that may not be finite (the sign of a
\* zero is not kept)
NaN == [num |-> 0, den |-> 0]

Infinity(sign) == [num |-> sign, den |-> 0]

IsFinite(a) == a.den # 0

Sign(a) == IF a.num < 0 THEN -1 ELSE 1

JsAdd(a, b) ==
    IF IsFinite(a) /\ IsFinite(b) THEN RAdd(a, b)
    ELSE IF a = NaN \/ b = NaN THEN NaN
    ELSE IF ~IsFinite(a) /\ ~IsFinite(b) THEN (IF a = b THEN a ELSE NaN)
    ELSE IF IsFinite(a) THEN b ELSE a

JsSub(a, b) == JsAdd(a, [b EXCEPT !.num = -@])

JsMul(a, b) ==
    IF IsFinite(a) /\ IsFinite(b) THEN RMul(a, b)
    ELSE IF a.num = 0 \/ b.num = 0 THEN NaN
    ELSE Infinity(Sign(a) * Sign(b))

JsDiv(a, b) ==
    IF a = NaN \/ b = NaN THEN NaN
    ELSE IF ~IsFinite(b) THEN (IF IsFinite(a) THEN RInt(0) ELSE NaN)
    ELSE IF ~IsFinite(a) THEN Infinity(Sign(a) * Sign(b))
    ELSE IF b.num = 0
    THEN (IF a.num = 0 THEN NaN ELSE Infinity(Sign(a)))
    ELSE RDiv(a, b)

\* presetJoints of renderPose and of the pose editor
presetJoints(preset) ==
    CASE preset = "face" -> { "head", "leftEye", "rightEye", "nose", "mouth" }
      [] preset = "upper" ->
           { "head", "neck", "leftShoulder", "rightShoulder", "leftElbow",
             "rightElbow", "leftHand", "rightHand", "hips", "leftEye",
             "rightEye", "nose", "mouth" }
      [] preset = "lower" ->
           { "hips", "leftHip", "rightHip", "leftKnee", "rightKnee",
             "leftFoot", "rightFoot" }
      [] OTHER -> JointNames

Presets == { "face", "upper", "lower", "full" }

\* renderPose(imageShape): what the canvas shows of a skeleton pose, the
\* lines of the visible connections and the circles of the visible joints
renderPose(imageShape) ==
    LET pose == imageShape.pose[1]
        visibleJoints == presetJoints(pose.preset)
        Visible(c) == c[1] \in visibleJoints /\ c[2] \in visibleJoints
    IN [lines |-> [k \in 1..Len(skeletonConnections) |->
                      IF Visible(skeletonConnections[k])
                      THEN SkeletonLine(pose.data, skeletonConnections[k])
                      ELSE None],
        circles |-> [j \in DOMAIN pose.data \cap visibleJoints |->
                        pose.data[j]]]

\* the effect of PoseEditorModal on [character]: every joint of the
\* character is brought from the character's box to the editor's window
ModalSkeleton(character) ==
    LET data == character.pose[1].data
        charBox == [x |-> RInt(character.x), y |-> RInt(character.y),
                    w |-> RInt(character.width), h |-> RInt(character.height)]
    IN [j \in DOMAIN data \cap JointNames |->
           RPt(JsAdd(RInt(0), JsMul(JsDiv(JsSub(data[j].x, charBox.x),
                                          charBox.w), RInt(MODAL_WIDTH))),
               JsAdd(RInt(0), JsMul(JsDiv(JsSub(data[j].y, charBox.y),
                                          charBox.h), RInt(MODAL_HEIGHT))))]

\* the skeletonPose state of the editor once it is mounted for character
MountedSkeletonPose(character) ==
    IF character.pose # None /\ character.pose[1].type = "skeleton"
    THEN [character.pose[1] EXCEPT !.data = ModalSkeleton(character)]
    ELSE [type |-> "skeleton", preset |-> "full",
          data |-> PoseEditorModal_createInitialSkeleton(0, 0, MODAL_WIDTH,
                                                         MODAL_HEIGHT),
          comment |-> ""]

\* (variant: the joints are stored as the editor's window has them)
SavedSkeleton_modalUnits(originalShape, pose) ==
    [j \in DOMAIN pose.data |->
        RPt(JsAdd(RInt(originalShape.x), pose.data[j].x),
            JsAdd(RInt(originalShape.y), pose.data[j].y))]

\* savePose: every joint of the editor is brought from the editor's
\* window (200 by 400) to the box of the image
SavedSkeleton(originalShape, pose) ==
    [j \in DOMAIN pose.data |->
        RPt(JsAdd(RInt(originalShape.x),
                  JsMul(JsDiv(JsSub(pose.data[j].x, RInt(0)), RInt(200 * U)),
                        RInt(originalShape.width))),
            JsAdd(RInt(originalShape.y),
                  JsMul(JsDiv(JsSub(pose.data[j].y, RInt(0)), RInt(400 * U)),
                        RInt(originalShape.height))))]

\* the list savePose(characterId, pose) hands to onShapesChange
PoseSaved(list, characterId, pose) ==
    LET Upd(s) ==
            IF s.id = characterId /\ s.type = "image"
            THEN [s EXCEPT !.pose =
                      Some([pose EXCEPT !.data = SavedSkeleton(s, pose)])]
            ELSE s
    IN MapSeq(list, Upd)

PoseEvent(op) == [kind |-> "pose", key |-> "", op |-> op]

\* an event of the pose editor or of its button
ModalEvent(op) ==
    /\ UserEvent(PoseEvent(op))
    /\ viewMode = "editor"
    /\ gesture' = GestureDisturbed
    /\ UNCHANGED << characters, assistantProposalImage, isSpacePressed,
                    viewTransform, activeTool, action, selectedShapeId,
                    editingShapeId, clock, viewOps >>

\* openPoseEditor(shape) of the button over the selected image at list
\* position i; the editor mounts and runs its effect
openPoseEditor(i) ==
    /\ ModalEvent("open")
    /\ posingCharacter = None
    /\ action.type = "none"
    /\ i \in 1..Len(shapes)
    /\ shapes[i].type = "image"
    /\ selectedShapeId = shapes[i].id
    /\ posingCharacter' = Some(shapes[i])
    /\ skeletonPose' = Some(MountedSkeletonPose(shapes[i]))
    /\ NoHistoryOp

\* the preset box of the editor
setPreset(preset) ==
    /\ ModalEvent("preset")
    /\ posingCharacter # None
    /\ skeletonPose[1].preset # preset
    /\ skeletonPose' = Some([skeletonPose[1] EXCEPT !.preset = preset])
    /\ NoHistoryOp
    /\ UNCHANGED posingCharacter

\* handleSkeletonMouseMove with draggingJoint set by the press on joint:
\* the joint follows the pointer inside the window
handleSkeletonMouseMove(joint, point) ==
    /\ ModalEvent("joint")
    /\ posingCharacter # None
    /\ joint \in DOMAIN skeletonPose[1].data
    /\ LET x == Max2(0, Min2(point.x, MODAL_WIDTH))
           y == Max2(0, Min2(point.y, MODAL_HEIGHT))
       IN skeletonPose' =
              Some([skeletonPose[1] EXCEPT !.data[joint] = RPt(RInt(x), RInt(y))])
    /\ NoHistoryOp
    /\ UNCHANGED posingCharacter

\* the reset button of the editor
resetSkeletonPose ==
    /\ ModalEvent("reset")
    /\ posingCharacter # None
    /\ skeletonPose' =
           Some([skeletonPose[1] EXCEPT !.data =
                    PoseEditorModal_createInitialSkeleton(0, 0, MODAL_WIDTH,
                                                          MODAL_HEIGHT)])
    /\ NoHistoryOp
    /\ UNCHANGED posingCharacter

\* handleSave of the editor on its skeleton tab: onSave(character.id,
\* skeletonPose), which is savePose, and the editor is closed
handleSave ==
    /\ ModalEvent("save")
    /\ posingCharacter # None
    /\ shapesHistoryIndex + 2 <= MaxHistory
    /\ handleShapesChange(
           PoseSaved(shapes, posingCharacter[1].id, skeletonPose[1]), TRUE)
    /\ posingCharacter' = None
    /\ skeletonPose' = None

\* onClose: the cancel and the close button of the editor
onClose ==
    /\ ModalEvent("close")
    /\ posingCharacter # None
    /\ posingCharacter' = None
    /\ skeletonPose' = None
    /\ NoHistoryOp

\* the decoded sizes of the pictures a user picks
PictureSizes == { [width |-> 100, height |-> 125], [width |-> 100, height |-> 50] }

\* handleImageFileSelect, from img.onload on: the picture is put in the
\* middle of the view, 200 wide
UploadedImage(id, img, vt) ==
    LET viewCenterX == RDiv(RSub(Rat(viewport.width, 2), vt.x), vt.scale)
        viewCenterY == RDiv(RSub(Rat(viewport.height, 2), vt.y), vt.scale)
        defaultWidth == 200
        scale == Rat(defaultWidth, img.width)
        defaultHeight == RMul(RInt(img.height), scale)
        OnGrid(r) == (r.num * U) \div r.den
    IN [id |-> id, type |-> "image", href |-> "upload",
        characterId |-> "user-upload", panelIndex |-> -1,
        x |-> OnGrid(RSub(viewCenterX, Rat(defaultWidth, 2))),
        y |-> OnGrid(RSub(viewCenterY, RDiv(defaultHeight, RInt(2)))),
        width |-> defaultWidth * U, height |-> OnGrid(defaultHeight),
        pose |-> None]

handleImageFileSelect(img) ==
    /\ Event(NoEvent)
    /\ UNCHANGED editingShapeId
    /\ posingCharacter = None
    /\ action.type = "none"
    /\ CanCreate
    /\ handleShapesChange(Append(shapes, UploadedImage(clock, img, viewTransform)),
                          TRUE)
    /\ clock' = clock + 1
    /\ gesture' = GestureDisturbed
    /\ UNCHANGED << viewTransform, activeTool, action, selectedShapeId, viewOps >>

\* ------------------------------------------------------- specification
Init ==
    /\ shapes = << >>
    /\ shapesHistory = << << >> >>
    /\ shapesHistoryIndex = 0
    /\ sceneDescription = << >>
    /\ viewTransform = IdentityTransform
    /\ activeTool = "select"
    /\ action = NoAction
    /\ selectedShapeId = Null
    /\ clock = 1
    /\ historyOp = NoOp
    /\ gesture = GestureIdle
    /\ replay = [phase |-> "commit", commits |-> << >>, undos |-> 0, redos |-> 0]
    /\ viewOps = 0
    /\ steps = 0
    /\ lastEvent = NoEvent
    /\ editingShapeId = Null
    /\ characters = InitialCharacters
    /\ assistantProposalImage = None
    /\ isSpacePressed = FALSE
    /\ posingCharacter = None
    /\ skeletonPose = None
    /\ isLoading = FALSE
    /\ viewMode = "editor"

Next ==
    \/ \E t \in Tools : setActiveTool(t)
    \/ \E target \in { "svg", "canvas" }, pos \in DocPoints, screen \in ScreenPoints :
           handleMouseDown(target, pos, screen)
    \/ \E i \in 1..MaxShapes, pos \in DocPoints, screen \in ScreenPoints :
           handleShapeInteraction(i, "shape", "", pos, screen)
    \/ \E i \in 1..MaxShapes, handle \in Handles, screen \in ScreenPoints :
           /\ HasResizeHandles(i)
           /\ handleShapeInteraction(i, "resize", handle, Pt(0, 0), screen)
    \/ \E pos \in DocPoints, screen \in ScreenPoints : handleMouseMove(pos, screen)
    \/ handleMouseUp
    \/ handleKeyDownEscape
    \/ \E i \in 1..MaxShapes : handleShapeDoubleClick(i)
    \/ \E text \in TextInputs : handleTextBoxChange(text)
    \/ handleTextBoxBlur
    \/ handleUndo
    \/ handleRedo
    \/ handleKeyDownDelete
    \/ handleKeyDownUndo
    \/ \E key \in { "Ctrl+Shift+Z", "Ctrl+Y" } : handleKeyDownRedo(key)
    \/ \E screen \in WheelPoints, direction \in { "in", "out" } :
           handleWheel(screen, direction)
    \/ clearCanvas
    \/ \E c \in 1..Len(characters), point \in DropPoints : handleDrop(c, point)
    \/ \E direction \in { "in", "out" } : zoom(direction)
    \/ fitAndCenterCanvas

Spec == Init /\ [][Next]_vars

\* ------------------------------------------------- prepared page states
\* the panel committed by Panel tool, press at a, move to b, release
PanelDrawn(id, a, b) ==
    CreatingFrame(<< NewPanel(id, a) >>, [shape |-> NewPanel(id, a)], b)[1]

PanelA == PanelDrawn(1, Pt(50 * U, 50 * U), Pt(250 * U, 200 * U))

PanelB == PanelDrawn(2, Pt(50 * U, 50 * U), Pt(250 * U, 200 * U))

\* the character dropped on PanelA (the id the clock hands out second)
ImageOnA == NewImage(2, InitialCharacters[1], Pt(100 * U, 100 * U), 0)

\* the editor after two panels were drawn over the same rectangle
TwoPanelScene ==
    [shapes |-> << PanelA, PanelB >>,
     shapesHistory |-> << << PanelA >>, << PanelA, PanelB >>,
                          << PanelA, PanelB >> >>,
     shapesHistoryIndex |-> 2,
     sceneDescription |-> << [n |-> 1, text |-> ""], [n |-> 2, text |-> ""] >>,
     selectedShapeId |-> 2, clock |-> 3]

\* the editor after a panel was drawn, a character dropped on it and the
\* character clicked
PosedImageScene ==
    [shapes |-> << PanelA, ImageOnA >>,
     shapesHistory |-> << << PanelA >>, << PanelA >>, << PanelA, ImageOnA >>,
                          << PanelA, ImageOnA >> >>,
     shapesHistoryIndex |-> 3,
     sceneDescription |-> << [n |-> 1, text |-> ""] >>,
     selectedShapeId |-> 2, clock |-> 3]

Scenes == { TwoPanelScene, PosedImageScene }

\* the view after zooming all the way in, and all the way out, with the
\* toolbar buttons
MaxZoomView == [scale |-> RInt(10), x |-> RInt(-3600), y |-> RInt(-2700)]

MinZoomView == [scale |-> Rat(1, 10), x |-> RInt(360), y |-> RInt(270)]

SceneViews == { IdentityTransform, MaxZoomView, MinZoomView }

InScene(scene, view) ==
    /\ shapes = scene.shapes
    /\ shapesHistory = scene.shapesHistory
    /\ shapesHistoryIndex = scene.shapesHistoryIndex
    /\ sceneDescription = scene.sceneDescription
    /\ selectedShapeId = scene.selectedShapeId
    /\ viewTransform = view
    /\ activeTool = "select"
    /\ action = NoAction
    /\ editingShapeId = Null
    /\ clock = scene.clock
    /\ characters = InitialCharacters
    /\ assistantProposalImage = None
    /\ isSpacePressed = FALSE
    /\ posingCharacter = None
    /\ skeletonPose = None
    /\ isLoading = FALSE
    /\ viewMode = "editor"

\* the editor starts from a prepared page; the observations start afresh
\* and MaxSteps - 3 further events are followed
InitScene ==
    /\ \E scene \in Scenes, view \in SceneViews : InScene(scene, view)
    /\ historyOp = NoOp
    /\ gesture = GestureIdle
    /\ replay = ReplayOff
    /\ viewOps = 0
    /\ steps = 3
    /\ lastEvent = NoEvent

SpecScene == InitScene /\ [][Next]_vars

\* ------------------------------------------------------ the script box
\* a change of the script text area
ScriptEvent == [kind |-> "script", key |-> ""]

\* scripts typed into the text area: three sections; a paragraph before
\* the first section, no section 1 and a section of two paragraphs
ScriptInputs ==
    { << [n |-> 1, text |-> "a"], [n |-> 2, text |-> "b"], [n |-> 3, text |-> "c"] >>,
      << [n |-> 0, text |-> "intro"], [n |-> 2, text |-> "b"],
         [n |-> 0, text |-> "more"] >> }

\* onSceneDescriptionChange(desc): handleUpdateCurrentPage({ sceneDescription })
\* (a change that follows another one is the same as the later one alone)
onSceneDescriptionChange(desc) ==
    /\ UserEvent(ScriptEvent)
    /\ UNCHANGED << characters, assistantProposalImage, isSpacePressed,
                    posingCharacter, skeletonPose >>
    /\ lastEvent.kind # "script"
    /\ sceneDescription' = desc
    /\ historyOp' = NoOp
    /\ gesture' = GestureDisturbed
    /\ UNCHANGED << shapes, shapesHistory, shapesHistoryIndex, replay,
                    editingShapeId, viewTransform, activeTool, action,
                    selectedShapeId, clock, viewOps >>

PanelC == PanelDrawn(3, Pt(250 * U, 200 * U), Pt(54 * U, 220 * U))

\* the editor after a third panel was drawn next to the other two
ThreePanelScene ==
    [shapes |-> << PanelA, PanelB, PanelC >>,
     shapesHistory |-> << << PanelA >>, << PanelA, PanelB >>,
                          << PanelA, PanelB, PanelC >>,
                          << PanelA, PanelB, PanelC >> >>,
     shapesHistoryIndex |-> 3,
     sceneDescription |-> << [n |-> 1, text |-> ""], [n |-> 2, text |-> ""],
                             [n |-> 3, text |-> ""] >>,
     selectedShapeId |-> 3, clock |-> 4]

\* the editor on a prepared page, with the script box
InitScript ==
    /\ \E scene \in Scenes \cup { ThreePanelScene } :
           InScene(scene, IdentityTransform)
    /\ historyOp = NoOp
    /\ gesture = GestureIdle
    /\ replay = ReplayOff
    /\ viewOps = 0
    /\ steps = 3
    /\ lastEvent = NoEvent

NextScript ==
    \/ Next
    \/ \E desc \in ScriptInputs : onSceneDescriptionChange(desc)

SpecScript == InitScript /\ [][NextScript]_vars

\* ------------------------------------------- the editor with its controls
\* the bubble committed by Bubble tool, press at a, move to b, release
BubbleDrawn(id, a, b) ==
    CreatingFrame(<< NewBubble(id, a) >>, [shape |-> NewBubble(id, a)], b)[1]

BubbleA == BubbleDrawn(1, Pt(50 * U, 50 * U), Pt(250 * U, 200 * U))

BubbleATailed == WithTail(<< BubbleA >>, 1)[1]

\* the arrow committed by Arrow tool, press at a, move to b, release
ArrowDrawn(id, a, b) ==
    CreatingFrame(<< NewArrow(id, a) >>, [shape |-> NewArrow(id, a)], b)[1]

\* an arrow drawn from the lower right to the upper left
ArrowA == ArrowDrawn(1, Pt(250 * U, 200 * U), Pt(50 * U, 50 * U))

\* a low, wide panel drawn from (54, 220) to (250, 200)
PanelD == PanelDrawn(2, Pt(54 * U, 220 * U), Pt(250 * U, 200 * U))

\* PanelD after its upper left vertex was dragged to (50, 50)
PanelDEdited ==
    VertexFrame(<< PanelD >>,
                [shapeId |-> 2,
                 vertexIndex |->
                     (CHOOSE k \in 1..Len(PanelD.points) :
                          PanelD.points[k] = Pt(54 * U, 200 * U)) - 1],
                Pt(50 * U, 50 * U))[1]

\* the editor after a bubble was drawn and given a tail
BubbleScene ==
    [shapes |-> << BubbleATailed >>,
     shapesHistory |-> << << BubbleA >>, << BubbleA >>, << BubbleATailed >> >>,
     shapesHistoryIndex |-> 2,
     sceneDescription |-> << >>,
     selectedShapeId |-> 1, clock |-> 2]

\* the editor after an arrow was drawn
ArrowScene ==
    [shapes |-> << ArrowA >>,
     shapesHistory |-> << << ArrowA >>, << ArrowA >> >>,
     shapesHistoryIndex |-> 1,
     sceneDescription |-> << >>,
     selectedShapeId |-> 1, clock |-> 2]

\* the two-panel page after a vertex of the second panel was dragged
EditedPanelScene ==
    [shapes |-> << PanelA, PanelDEdited >>,
     shapesHistory |-> << << PanelA >>, << PanelA, PanelD >>,
                          << PanelA, PanelDEdited >>,
                          << PanelA, PanelDEdited >> >>,
     shapesHistoryIndex |-> 3,
     sceneDescription |-> << [n |-> 1, text |-> ""], [n |-> 2, text |-> ""] >>,
     selectedShapeId |-> 2, clock |-> 3]

EditorScenes ==
    { TwoPanelScene, PosedImageScene, BubbleScene, ArrowScene, EditedPanelScene }

InitEditor ==
    /\ \E scene \in EditorScenes : InScene(scene, IdentityTransform)
    /\ historyOp = NoOp
    /\ gesture = GestureIdle
    /\ replay = ReplayOff
    /\ viewOps = 0
    /\ steps = 3
    /\ lastEvent = NoEvent

\* every pointer, key and page event of the editor
NextEditor ==
    \/ Next
    \/ \E i \in 1..MaxShapes, handle \in Handles, screen \in ScreenPoints :
           handleShapeInteraction(i, "resize", handle, Pt(0, 0), screen)
    \/ \E i \in 1..MaxShapes, screen \in ScreenPoints :
           handleShapeInteraction(i, "tail", "", Pt(0, 0), screen)
    \/ \E i \in 1..MaxShapes, v \in 0..(MaxVertices - 1), screen \in ScreenPoints :
           handleShapeInteraction(i, "panelVertex", v, Pt(0, 0), screen)
    \/ \E i \in 1..MaxShapes, h \in { 0, 1 }, screen \in ScreenPoints :
           handleShapeInteraction(i, "arrowHandle", h, Pt(0, 0), screen)
    \/ \E i \in 1..MaxShapes, edge \in 0..(MaxVertices - 1) :
           handleAddPanelVertex(i, edge)
    \/ handleMouseUpIdle
    \/ handleKeyDownSpace
    \/ handleKeyUpSpace
    \/ \E i \in 1..MaxShapes : addBubbleTail(i)
    \/ \E ok \in BOOLEAN : handleGenerateLayoutProposal(ok)
    \/ handleApplyLayout
    \/ \E c \in 1..Len(characters) : handleDeleteCharacter(c)

SpecEditor == InitEditor /\ [][NextEditor]_vars

\* ------------------------------------------------ the pose editor's runs
PoseScenes == { PosedImageScene }

ModalPoints == { Pt(40 * U, 60 * U), Pt(300 * U, 60 * U) }

DraggedJoints == { "head", "leftFoot" }

InitPose ==
    /\ \E scene \in PoseScenes : InScene(scene, IdentityTransform)
    /\ historyOp = NoOp
    /\ gesture = GestureIdle
    /\ replay = ReplayOff
    /\ viewOps = 0
    /\ steps = 3
    /\ lastEvent = NoEvent

\* the pose editor covers the canvas: while it is open the pointer reaches
\* the editor only, the keys reach the window as before
NextPose ==
    \/ \E i \in 1..MaxShapes : openPoseEditor(i)
    \/ \E preset \in Presets : setPreset(preset)
    \/ \E joint \in DraggedJoints, point \in ModalPoints :
           handleSkeletonMouseMove(joint, point)
    \/ resetSkeletonPose
    \/ handleSave
    \/ onClose
    \/ handleKeyDownEscape
    \/ handleKeyDownUndo
    \/ \E key \in { "Ctrl+Shift+Z", "Ctrl+Y" } : handleKeyDownRedo(key)
    \/ handleKeyDownDelete
    \/ \E img \in PictureSizes : handleImageFileSelect(img)
    \/ \E i \in 1..MaxShapes, pos \in DocPoints, screen \in ScreenPoints :
           /\ posingCharacter = None
           /\ handleShapeInteraction(i, "shape", "", pos, screen)
    \/ \E i \in 1..MaxShapes, handle \in Handles, screen \in ScreenPoints :
           /\ posingCharacter = None
           /\ HasResizeHandles(i)
           /\ handleShapeInteraction(i, "resize", handle, Pt(0, 0), screen)
    \/ \E pos \in DocPoints, screen \in ScreenPoints :
           /\ posingCharacter = None
           /\ handleMouseMove(pos, screen)
    \/ posingCharacter = None /\ handleMouseUp

SpecPose == InitPose /\ [][NextPose]_vars


\* ------------------------------------------------ the page's generation
InitGenerate ==
    /\ \E scene \in Scenes : InScene(scene, IdentityTransform)
    /\ historyOp = NoOp
    /\ gesture = GestureIdle
    /\ replay = ReplayOff
    /\ viewOps = 0
    /\ steps = 3
    /\ lastEvent = NoEvent

NextGenerate ==
    \/ Next
    \/ handleGenerateImage
    \/ \E ok \in BOOLEAN : generateMangaPageReturns(ok)
    \/ onReturnToEditor

SpecGenerate == InitGenerate /\ [][NextGenerate]_vars

\* ------------------------------------------- the functions on their own
\* a call of one of the editor's functions and its return
CallEvent(fn, input) == [kind |-> "call", key |-> "", fn |-> fn, input |-> input]

ReturnEvent(fn, input, output) ==
    [kind |-> "return", key |-> "", fn |-> fn, input |-> input,
     output |-> output]

\* vertices offered to getPolygonCentroid
GridPoints ==
    { Pt(0, 0), Pt(10 * U, 0), Pt(10 * U, 10 * U), Pt(0, 10 * U),
      Pt(5 * U, 5 * U) }

PointLists == UNION { [1..n -> GridPoints] : n \in 0..MaxPoints }

\* bubbles offered to getBubblePath: centre (50,50), 40 x 20 or 40 x 40
BubbleBoxes ==
    { [x |-> 30 * U, y |-> 40 * U, width |-> 40 * U, height |-> 20 * U],
      [x |-> 30 * U, y |-> 30 * U, width |-> 40 * U, height |-> 40 * U] }

\* tail points: none, the centre, and points whose distance from the
\* centre is a whole number
TailOffsets ==
    { << 0, 0 >>, << 50, 0 >>, << -50, 0 >>, << 0, 50 >>, << 0, -50 >>,
      << 30, 40 >>, << -30, 40 >>, << 30, -40 >>, << -40, -30 >> }

Tails == { None } \cup { Some(Pt((50 + d[1]) * U, (50 + d[2]) * U)) : d \in TailOffsets }

Bubbles ==
    { [id |-> 1, type |-> "bubble", bubbleType |-> t, text |-> "",
       x |-> box.x, y |-> box.y, width |-> box.width, height |-> box.height,
       tail |-> tail] :
          t \in { "rounded", "oval", "rect" }, box \in BubbleBoxes,
          tail \in Tails }

\* the square roots of getBubblePath are whole fractions for these
BubbleInputs ==
    { b \in Bubbles :
          (/\ b.bubbleType = "oval"
           /\ b.tail # None
           /\ b.tail[1].x # 50 * U
           /\ b.tail[1].y # 50 * U) => b.width = b.height }

\* boxes a fresh skeleton is made for: the box of a dropped character
\* and the pose editor's window
SkeletonBoxes ==
    { [x |-> p.x - 75 * U, y |-> p.y - 125 * U,
       width |-> 150 * U, height |-> 250 * U] : p \in DropPoints }
        \cup { [x |-> 0, y |-> 0, width |-> MODAL_WIDTH, height |-> MODAL_HEIGHT] }

\* the places that make a fresh skeleton
SkeletonMakers == { "handleDrop", "PoseEditorModal", "resetSkeleton" }

\* views offered to the zooms and to the pan on their own, with scales
\* below, at, between, and above the limits 0.1 and 10
ZoomScales == { Rat(1, 20), Rat(1, 10), Rat(21, 200), RInt(1), RInt(9),
                RInt(10), RInt(20) }

ZoomInputs == { [scale |-> s, x |-> RInt(30), y |-> RInt(-40)] : s \in ZoomScales }

\* images offered to the pose editor and to the resize on their own: the
\* dropped character, and the same with a side of its box at zero
BoxedImages ==
    { [ImageOnA EXCEPT !.width = w, !.height = h] :
          w \in { 0, 35 * U, 150 * U }, h \in { 0, 250 * U } }

Calls ==
    { CallEvent("getPolygonCentroid", points) : points \in PointLists }
        \cup { CallEvent("getBubblePath", b) : b \in BubbleInputs }
        \cup { CallEvent(fn, box) : fn \in SkeletonMakers, box \in SkeletonBoxes }
        \cup { CallEvent("savePose", img) : img \in BoxedImages }
        \cup { CallEvent("zoom", [view |-> v, direction |-> d]) :
                   v \in ZoomInputs, d \in { "in", "out" } }
        \cup { CallEvent("handleWheel",
                         [view |-> v, mouse |-> p, direction |-> d]) :
                   v \in ZoomInputs, p \in WheelPoints, d \in { "in", "out" } }
        \cup { CallEvent("panning", [startVT |-> v, startPos |-> p, cursor |-> q]) :
                   v \in ZoomInputs, p \in ScreenPoints, q \in ScreenPoints }
        \cup { CallEvent("resizing", [image |-> img, handle |-> h, pos |-> p]) :
                   img \in BoxedImages, h \in Handles, p \in DocPoints }

\* the editor on the fresh page, about to evaluate one call
InitCalls ==
    /\ shapes = << >>
    /\ shapesHistory = << << >> >>
    /\ shapesHistoryIndex = 0
    /\ sceneDescription = << >>
    /\ viewTransform = IdentityTransform
    /\ activeTool = "select"
    /\ action = NoAction
    /\ selectedShapeId = Null
    /\ editingShapeId = Null
    /\ clock = 1
    /\ historyOp = NoOp
    /\ gesture = GestureIdle
    /\ replay = ReplayOff
    /\ viewOps = 0
    /\ steps = 0
    /\ lastEvent \in Calls
    /\ characters = InitialCharacters
    /\ assistantProposalImage = None
    /\ isSpacePressed = FALSE
    /\ posingCharacter = None
    /\ skeletonPose = None
    /\ isLoading = FALSE
    /\ viewMode = "editor"

Returns(fn, output) ==
    /\ lastEvent.kind = "call"
    /\ lastEvent.fn = fn
    /\ lastEvent' = ReturnEvent(fn, lastEvent.input, output)
    /\ UNCHANGED << shapes, shapesHistory, shapesHistoryIndex, sceneDescription,
                    editingShapeId, viewTransform, activeTool, action,
                    selectedShapeId, clock, historyOp, gesture, replay,
                    viewOps, steps, characters, assistantProposalImage,
                    isSpacePressed, posingCharacter, skeletonPose,
                    isLoading, viewMode >>

callGetPolygonCentroid ==
    /\ lastEvent.kind = "call"
    /\ lastEvent.fn = "getPolygonCentroid"
    /\ Returns("getPolygonCentroid", getPolygonCentroid(lastEvent.input))

callGetBubblePath ==
    /\ lastEvent.kind = "call"
    /\ lastEvent.fn = "getBubblePath"
    /\ Returns("getBubblePath", getBubblePath(lastEvent.input))

\* handleDrop gives the dropped character the editor's skeleton for its box
callHandleDropSkeleton ==
    /\ lastEvent.kind = "call"
    /\ lastEvent.fn = "handleDrop"
    /\ LET box == lastEvent.input
       IN Returns("handleDrop",
                  createInitialSkeleton(box.x, box.y, box.width, box.height))

\* the pose editor starts from its own skeleton
callPoseEditorInitialSkeleton ==
    /\ lastEvent.kind = "call"
    /\ lastEvent.fn = "PoseEditorModal"
    /\ LET box == lastEvent.input
       IN Returns("PoseEditorModal",
                  PoseEditorModal_createInitialSkeleton(box.x, box.y,
                                                        box.width, box.height))

\* and its reset button makes that skeleton again
resetSkeleton ==
    /\ lastEvent.kind = "call"
    /\ lastEvent.fn = "resetSkeleton"
    /\ LET box == lastEvent.input
       IN Returns("resetSkeleton",
                  PoseEditorModal_createInitialSkeleton(box.x, box.y,
                                                        box.width, box.height))

\* the pose editor is opened on the image and saved as it is
callSavePose ==
    /\ lastEvent.kind = "call"
    /\ lastEvent.fn = "savePose"
    /\ LET img == lastEvent.input
       IN Returns("savePose",
                  PoseSaved(<< img >>, img.id, MountedSkeletonPose(img))[1])

\* one frame of a resize that started on the image
callResizing ==
    /\ lastEvent.kind = "call"
    /\ lastEvent.fn = "resizing"
    /\ LET img == lastEvent.input.image
           a == [type |-> "resizing", shapeId |-> img.id,
                 handle |-> lastEvent.input.handle, originalShape |-> img]
       IN Returns("resizing", ResizingFrame(<< img >>, a, lastEvent.input.pos)[1])

\* zoom(direction) of the toolbar buttons on a view
callZoom ==
    /\ lastEvent.kind = "call"
    /\ lastEvent.fn = "zoom"
    /\ Returns("zoom", ZoomedView(lastEvent.input.view, lastEvent.input.direction))

\* handleWheel on a view
callHandleWheel ==
    /\ lastEvent.kind = "call"
    /\ lastEvent.fn = "handleWheel"
    /\ Returns("handleWheel",
               WheelView(lastEvent.input.view, lastEvent.input.mouse,
                         lastEvent.input.direction))

\* one frame of a pan that started on a view
callPanning ==
    /\ lastEvent.kind = "call"
    /\ lastEvent.fn = "panning"
    /\ LET a == [type |-> "panning", startPos |-> lastEvent.input.startPos,
                 startVT |-> lastEvent.input.startVT]
       IN Returns("panning", PanView(a, lastEvent.input.cursor))

NextCalls ==
    \/ callZoom
    \/ callHandleWheel
    \/ callPanning
    \/ callSavePose
    \/ callResizing
    \/ callGetPolygonCentroid
    \/ callGetBubblePath
    \/ callHandleDropSkeleton
    \/ callPoseEditorInitialSkeleton
    \/ resetSkeleton

SpecCalls == InitCalls /\ [][NextCalls]_vars

\* ================================================================ claims
SnapshotAt(k) == IF k = 0 THEN << >> ELSE replay.commits[k]

ReplayPosition ==
    CASE replay.phase = "commit" -> Len(replay.commits)
      [] replay.phase = "undo" -> Len(replay.commits) - replay.undos
      [] replay.phase = "redo" -> replay.redos

\* C1: starting from a fresh page, after n commits, then n undos, then n
\* redos, the live shape list is the state after the n-th commit, and after
\* every intermediate undo / redo it is the snapshot committed at that
\* position.
C1_UndoRedoInverse ==
    replay.phase # "off" =>
        /\ shapes = SnapshotAt(ReplayPosition)
        /\ (replay.phase = "redo" /\ replay.redos = Len(replay.commits))
               => shapes = replay.commits[Len(replay.commits)]

C1_Witness ==
    /\ replay.phase = "redo"
    /\ Len(replay.commits) >= 2
    /\ replay.redos = Len(replay.commits)
    /\ replay.commits[1] # replay.commits[2]

CleanDragDone ==
    /\ gesture.phase = "done"
    /\ gesture.kind = "dragging"
    /\ gesture.clean
    /\ gesture.moves >= 1

\* C2 (as stated): a drag gesture of pointer-down, k >= 1 pointer-moves and
\* one pointer-up increases the history length by exactly 1.
C2_LengthPlusOne ==
    CleanDragDone => Len(shapesHistory) = gesture.len0 + 1

\* C2 (amended): such a drag gesture leaves exactly one entry after the
\* pre-gesture index, for every k: the index grows by exactly 1 and the
\* length becomes the old index + 2, which is the old length + 1 when the
\* gesture started at the last index.
C2_OneEntryPerDrag ==
    CleanDragDone =>
        /\ shapesHistoryIndex = gesture.idx0 + 1
        /\ Len(shapesHistory) = gesture.idx0 + 2
        /\ gesture.idx0 = gesture.len0 - 1
               => Len(shapesHistory) = gesture.len0 + 1

C2_Witness ==
    /\ CleanDragDone
    /\ gesture.moves >= 2
    /\ shapes # gesture.before

\* C3: after a continuous drag or draw gesture (pointer-down, pointer-moves,
\* pointer-up) that started with live shape list S, a single undo makes the
\* live shape list equal to S again.
C3_SingleUndoRestores ==
    [][ ( /\ gesture.phase = "done"
          /\ gesture.kind \in { "dragging", "drawing" }
          /\ gesture.clean
          /\ gesture.moves >= 1
          /\ historyOp'.op = "undo" )
            => shapes' = gesture.before ]_vars

\* C4: a commit at index i discards the snapshots after i, appends the new
\* list and moves the index to the new last position; snapshots at
\* positions <= i are unchanged; afterwards canRedo is false and canUndo true.
C4_CommitTruncatesAppends ==
    [][ historyOp'.op = "commit" =>
            /\ Len(shapesHistory') = shapesHistoryIndex + 2
            /\ \A k \in 1..(shapesHistoryIndex + 1) :
                   shapesHistory'[k] = shapesHistory[k]
            /\ shapesHistory'[Len(shapesHistory')] = shapes'
            /\ shapesHistoryIndex' = Len(shapesHistory') - 1
            /\ ~ canRedo'
            /\ canUndo' ]_vars

C4_Witness ==
    /\ historyOp.op = "commit"
    /\ historyOp.from + 1 < historyOp.len
    /\ historyOp.from >= 1

\* C5: an in-place update replaces only the snapshot at the current index:
\* index, length and every other snapshot (redo tail included) are unchanged.
C5_InPlaceFrame ==
    [][ historyOp'.op = "inplace" =>
            /\ shapesHistoryIndex' = shapesHistoryIndex
            /\ Len(shapesHistory') = Len(shapesHistory)
            /\ shapesHistory'[shapesHistoryIndex + 1] = shapes'
            /\ \A k \in 1..Len(shapesHistory) :
                   k # shapesHistoryIndex + 1
                       => shapesHistory'[k] = shapesHistory[k] ]_vars

C5_Witness ==
    /\ historyOp.op = "inplace"
    /\ historyOp.from + 1 < historyOp.len
    /\ historyOp.from >= 1
    /\ shapes # gesture.before

\* C6: undo at index 0 and redo at the last index change nothing; anywhere
\* else they move the index by exactly 1 and make the live list the
\* snapshot at the new index; neither changes the history sequence.
C6_UndoRedoSteps ==
    [][ /\ historyOp'.op = "undo" =>
              /\ shapesHistory' = shapesHistory
              /\ IF shapesHistoryIndex = 0
                 THEN shapes' = shapes /\ shapesHistoryIndex' = 0
                 ELSE /\ shapesHistoryIndex' = shapesHistoryIndex - 1
                      /\ shapes' = shapesHistory[shapesHistoryIndex' + 1]
        /\ historyOp'.op = "redo" =>
              /\ shapesHistory' = shapesHistory
              /\ IF shapesHistoryIndex = Len(shapesHistory) - 1
                 THEN shapes' = shapes /\ shapesHistoryIndex' = shapesHistoryIndex
                 ELSE /\ shapesHistoryIndex' = shapesHistoryIndex + 1
                      /\ shapes' = shapesHistory[shapesHistoryIndex' + 1] ]_vars

C6_Witness ==
    /\ historyOp.op = "redo"
    /\ historyOp.from = historyOp.len - 1
    /\ historyOp.len >= 3
    /\ shapesHistory[1] # shapesHistory[2]

\* C7: releasing the pointer on a Bubble or Panel being created whose final
\* width or height is below 10 document units leaves the shape out of the
\* snapshot committed at pointer-up and out of the live shape list.
C7_MinimumSizeDiscard ==
    [][ ( /\ action.type = "creating"
          /\ action.shape.type \in { "bubble", "panel" }
          /\ action'.type = "none"
          /\ HasId(shapes, action.shape.id)
          /\ LET s == FindShape(shapes, action.shape.id)
             IN s.width < 10 * U \/ s.height < 10 * U )
        => /\ ~ HasId(shapes', action.shape.id)
           /\ ~ HasId(shapesHistory'[shapesHistoryIndex' + 1], action.shape.id)
           /\ historyOp'.op = "commit" ]_vars

C7_Witness ==
    /\ gesture.phase = "done"
    /\ gesture.kind = "creating"
    /\ gesture.clean
    /\ gesture.moves >= 1
    /\ selectedShapeId # Null
    /\ ~ HasId(shapes, selectedShapeId)
    /\ shapes = gesture.before

\* C8: the compositor output depends on the shape list, the page size, the
\* character list and includeCharacters only: a step that keeps the shape
\* list (a pan, a zoom, a selection, a tool change) keeps the output, and
\* the output has exactly the page size.
C8_OutputIgnoresView ==
    [][ shapes' = shapes =>
            \A inc \in BOOLEAN :
                /\ getLayoutAsImage(shapes', viewTransform', inc, characters)
                       = getLayoutAsImage(shapes, viewTransform, inc, characters)
                /\ getLayoutAsImage(shapes', viewTransform', inc, characters).width
                       = canvasConfig.w
                /\ getLayoutAsImage(shapes', viewTransform', inc, characters).height
                       = canvasConfig.h ]_vars

C8_Witness ==
    /\ viewTransform.scale # RInt(1)
    /\ \E i \in 1..Len(shapes) : shapes[i].type = "image"
    /\ activeTool # "select"

\* C9: for every shape of kind Panel, Bubble, Text, Drawing, Arrow and
\* (with includeCharacters) Image, the compositor output contains an
\* element rendering that shape.
C9_EveryKindRendered ==
    \A i \in 1..Len(shapes) :
        \E k \in 1..Len(getLayoutAsImage(shapes, viewTransform, TRUE,
                                        characters).elements) :
            getLayoutAsImage(shapes, viewTransform, TRUE,
                             characters).elements[k].shape = shapes[i].id

DraggedImage ==
    /\ action.type = "dragging"
    /\ gesture.clean
    /\ HasId(shapes, action.shapeId)
    /\ HasId(gesture.before, action.shapeId)
    /\ FindShape(shapes, action.shapeId).type = "image"
    /\ FindShape(shapes, action.shapeId).pose # None
    /\ FindShape(shapes, action.shapeId).pose[1].type = "skeleton"

\* C10: while an Image with a Skeleton pose is dragged, after every
\* pointer-move each joint has moved by the same (dx, dy) as the shape's
\* anchor: joint-minus-anchor offsets are those from before the gesture.
C10_DragTranslatesJoints ==
    DraggedImage =>
        LET s == FindShape(shapes, action.shapeId)
            s0 == FindShape(gesture.before, action.shapeId)
        IN \A j \in JointNames :
               /\ RSub(s.pose[1].data[j].x, RInt(s.x))
                      = RSub(s0.pose[1].data[j].x, RInt(s0.x))
               /\ RSub(s.pose[1].data[j].y, RInt(s.y))
                      = RSub(s0.pose[1].data[j].y, RInt(s0.y))

C10_Witness ==
    /\ DraggedImage
    /\ gesture.moves >= 1
    /\ FindShape(shapes, action.shapeId).x # FindShape(gesture.before, action.shapeId).x
    /\ FindShape(shapes, action.shapeId).y # FindShape(gesture.before, action.shapeId).y

ResizedImage ==
    /\ action.type = "resizing"
    /\ gesture.clean
    /\ gesture.moves >= 1
    /\ HasId(shapes, action.shapeId)
    /\ HasId(gesture.before, action.shapeId)
    /\ FindShape(gesture.before, action.shapeId).type = "image"
    /\ FindShape(gesture.before, action.shapeId).pose # None
    /\ FindShape(gesture.before, action.shapeId).pose[1].type = "skeleton"

\* C11: while an Image with a Skeleton pose is resized, after every
\* pointer-move each joint is at
\*   newBox.origin + (original joint - originalBox.origin)
\*                       * (newBox.size / originalBox.size),
\* the originals being the ones found at pointer-down, whatever the frames
\* in between were.
C11_ResizeScalesFromOriginal ==
    ResizedImage =>
        LET s == FindShape(shapes, action.shapeId)
            s0 == FindShape(gesture.before, action.shapeId)
        IN \A j \in JointNames :
               /\ s.pose[1].data[j].x =
                      RAdd(RInt(s.x),
                           RMul(RSub(s0.pose[1].data[j].x, RInt(s0.x)),
                                Rat(s.width, s0.width)))
               /\ s.pose[1].data[j].y =
                      RAdd(RInt(s.y),
                           RMul(RSub(s0.pose[1].data[j].y, RInt(s0.y)),
                                Rat(s.height, s0.height)))

\* a second frame of a resize that moved the origin and changed the two
\* sides by different factors
C11_Witness ==
    /\ ResizedImage
    /\ gesture.moves = 2
    /\ HandleIncludes(action.handle, "left")
    /\ LET s == FindShape(shapes, action.shapeId)
           s0 == FindShape(gesture.before, action.shapeId)
       IN /\ s.x # s0.x
          /\ s.width * s0.height # s.height * s0.width

PanelsContaining(list, point) ==
    { i \in 1..Len(Panels(list)) :
          isPointInPolygon(point, Panels(list)[i].points) }

\* C12: a character dropped at a point inside several overlapping panels
\* is assigned to the topmost one, the latest in list order: the new image
\* records the greatest panel ordinal among the panels containing the point.
C12_DropOnTopmostPanel ==
    [][lastEvent'.kind = "drop" =>
          /\ Len(shapes') = Len(shapes) + 1
          /\ shapes'[Len(shapes')].type = "image"
          /\ PanelsContaining(shapes, lastEvent'.cursor) # { }
          /\ \A i \in PanelsContaining(shapes, lastEvent'.cursor) :
                 i - 1 <= shapes'[Len(shapes')].panelIndex
          /\ shapes'[Len(shapes')].panelIndex + 1
                 \in PanelsContaining(shapes, lastEvent'.cursor)]_vars

\* a drop at a point inside two panels that went to the later one
C12_Witness ==
    /\ lastEvent.kind = "drop"
    /\ Len(shapes) = 3
    /\ shapes[3].type = "image"
    /\ shapes[3].panelIndex = 1
    /\ PanelsContaining(shapes, lastEvent.cursor) = { 1, 2 }

\* C13: a wheel zoom at a cursor, in either direction and also when the
\* new scale is clamped, leaves the document point under the cursor where
\* it was: the screen-to-document conversion of the cursor is the same
\* under the view transform before and after the zoom.
C13_ZoomKeepsCursorPoint ==
    [][lastEvent'.kind = "wheel" =>
          ScreenToDocument(viewTransform', lastEvent'.cursor)
              = ScreenToDocument(viewTransform, lastEvent'.cursor)]_vars

\* a wheel zoom whose new scale was clamped
C13_Witness ==
    /\ lastEvent.kind = "wheel"
    /\ \/ /\ lastEvent.direction = "in"
          /\ RLess(RInt(10), RMul(lastEvent.from, Rat(11, 10)))
          /\ viewTransform.scale = RInt(10)
       \/ /\ lastEvent.direction = "out"
          /\ RLess(RDiv(lastEvent.from, Rat(11, 10)), Rat(1, 10))
          /\ viewTransform.scale = Rat(1, 10)

Returned(fn) == lastEvent.kind = "return" /\ lastEvent.fn = fn

Collinear(points) ==
    \A i, j, k \in 1..Len(points) :
        (points[j].x - points[i].x) * (points[k].y - points[i].y)
            = (points[k].x - points[i].x) * (points[j].y - points[i].y)

BBoxCenter(points) ==
    RPt(Rat(MinOf(Xs(points)) + MaxOf(Xs(points)), 2),
        Rat(MinOf(Ys(points)) + MaxOf(Ys(points)), 2))

\* the square (0,0),(10,0),(10,10),(0,10), listed in either orientation
Square ==
    { << Pt(0, 0), Pt(10 * U, 0), Pt(10 * U, 10 * U), Pt(0, 10 * U) >>,
      << Pt(0, 10 * U), Pt(10 * U, 10 * U), Pt(10 * U, 0), Pt(0, 0) >> }

\* C14: getPolygonCentroid returns the centre of the bounding box of the
\* points for fewer than 3 points and for 3 or more collinear points, its
\* result is never the outcome of a division by zero, and for the square
\* (0,0),(10,0),(10,10),(0,10) it is exactly (5,5) in either orientation.
C14_CentroidFallback ==
    Returned("getPolygonCentroid") =>
        LET points == lastEvent.input
            out == lastEvent.output
        IN /\ out.x.den > 0 /\ out.y.den > 0
           /\ (Len(points) >= 1 /\ (Len(points) < 3 \/ Collinear(points)))
                  => out = BBoxCenter(points)
           /\ points \in Square => out = RPt(RInt(5 * U), RInt(5 * U))

\* three different collinear points were given
C14_Witness ==
    /\ Returned("getPolygonCentroid")
    /\ Len(lastEvent.input) = 3
    /\ Collinear(lastEvent.input)
    /\ Cardinality({ lastEvent.input[i] : i \in 1..3 }) = 3
    /\ lastEvent.output = RPt(RInt(5 * U), RInt(5 * U))

\* the release that ends an uninterrupted panel creation whose last
\* pointer-move was at lastEvent.cursor
PanelReleased ==
    /\ action.type = "creating"
    /\ action.shape.type = "panel"
    /\ gesture.clean
    /\ gesture.moves >= 1
    /\ lastEvent.kind = "move"
    /\ gesture'.phase = "done"

\* the list holds the panel id as the rectangle spanned by a and b
HoldsPanel(list, id, a, b) ==
    /\ HasId(list, id)
    /\ LET p == FindShape(list, id)
           x0 == Min2(a.x, b.x)
           y0 == Min2(a.y, b.y)
           x1 == Max2(a.x, b.x)
           y1 == Max2(a.y, b.y)
       IN /\ p.type = "panel"
          /\ Len(p.points) = 4
          /\ { p.points[i] : i \in 1..4 }
                 = { Pt(x0, y0), Pt(x1, y0), Pt(x1, y1), Pt(x0, y1) }
          /\ p.x = x0 /\ p.y = y0
          /\ p.width = Abs(b.x - a.x) /\ p.height = Abs(b.y - a.y)

\* C15 as stated: pointer-down at a with the Panel tool, a drag to b in any
\* direction and the release commit a Panel with exactly 4 points, the
\* corners of the rectangle spanned by a and b, and the box x = min, y = min,
\* width = |dx|, height = |dy|.
C15_PanelSpansDragAlways ==
    [][PanelReleased =>
          /\ HoldsPanel(shapes', action.shape.id,
                        Pt(action.shape.x, action.shape.y), lastEvent.cursor)
          /\ shapesHistory'[shapesHistoryIndex' + 1] = shapes']_vars

\* C15: the same for a drag that spans at least 10 document units in both
\* directions.
C15_PanelSpansDrag ==
    [][(/\ PanelReleased
        /\ Abs(lastEvent.cursor.x - action.shape.x) >= 10 * U
        /\ Abs(lastEvent.cursor.y - action.shape.y) >= 10 * U) =>
          /\ HoldsPanel(shapes', action.shape.id,
                        Pt(action.shape.x, action.shape.y), lastEvent.cursor)
          /\ shapesHistory'[shapesHistoryIndex' + 1] = shapes']_vars

\* the committed panel of the drag (50,50) -> (250,200), or back
C15_Witness ==
    /\ gesture.phase = "done"
    /\ gesture.kind = "creating"
    /\ gesture.clean
    /\ gesture.moves >= 1
    /\ Len(shapes) = 1
    /\ shapes[1].type = "panel"
    /\ getShapeBBox(shapes[1])
          = [x |-> 50 * U, y |-> 50 * U, width |-> 200 * U, height |-> 150 * U]
    /\ shapesHistory[shapesHistoryIndex + 1] = shapes

Subpaths(path) == Cardinality({ k \in 1..Len(path) : path[k].op = "M" })

TailAtCentre(b) ==
    /\ b.tail # None
    /\ 2 * b.tail[1].x = 2 * b.x + b.width
    /\ 2 * b.tail[1].y = 2 * b.y + b.height

\* C16: for a bubble without a tail point, or with the tail point on the
\* centre of the bubble, the path is the body silhouette alone; otherwise
\* it is the body followed by exactly one triangle (M, L, L, Z) whose
\* apex, the end of its first line segment, is exactly the tail point.
C16_BubbleTail ==
    Returned("getBubblePath") =>
        LET b == lastEvent.input
            path == lastEvent.output
            body == getBubblePath([b EXCEPT !.tail = None])
        IN IF b.tail = None \/ TailAtCentre(b)
           THEN /\ path = body
                /\ Subpaths(path) = 1
           ELSE /\ Len(path) = Len(body) + 4
                /\ SubSeq(path, 1, Len(body)) = body
                /\ Subpaths(path) = 2
                /\ << path[Len(body) + 1].op, path[Len(body) + 2].op,
                      path[Len(body) + 3].op, path[Len(body) + 4].op >>
                       = << "M", "L", "L", "Z" >>
                /\ path[Len(body) + 2].args
                       = << RInt(b.tail[1].x), RInt(b.tail[1].y) >>

\* the tail of a rounded 40 x 20 bubble centred at (50,50)
C16_Witness ==
    /\ Returned("getBubblePath")
    /\ lastEvent.input.bubbleType = "rounded"
    /\ lastEvent.input.height = 20 * U
    /\ lastEvent.input.tail = Some(Pt(80 * U, 90 * U))
    /\ Len(lastEvent.output) = 14
    /\ lastEvent.output[12].args = << RInt(80 * U), RInt(90 * U) >>

\* the paragraphs written under "Panel i:" in a script that has at most
\* one such section
AuthoredText(desc, i) ==
    LET heads == { k \in 1..Len(desc) : desc[k].n = i }
    IN IF heads = { } THEN << >>
       ELSE LET k == CHOOSE k \in heads : TRUE
                own == { m \in k..Len(desc) :
                            \A j \in k + 1..m : desc[j].n = 0 }
            IN SelectSeq([j \in 1..Cardinality(own) |-> desc[k + j - 1].text],
                         LAMBDA t : t # "")

\* the ordinals of the sections of a script, in order
SectionOrdinals(desc) ==
    LET heads == SelectSeq(desc, LAMBDA block : block.n # 0)
    IN [k \in 1..Len(heads) |-> heads[k].n]

\* C17: a commit that changes the number of panels to n leaves a script
\* that consists of the sections Panel 1 .. Panel n and nothing else, each
\* with the text that was written under its ordinal before (none when
\* there was no such section); n = 0 leaves the empty script.  A commit
\* that does not change the number of panels leaves the script as it was.
C17_ScriptFollowsPanels ==
    [][historyOp'.op = "commit" =>
          IF CountType(shapes', "panel") # CountType(shapes, "panel")
          THEN /\ SectionOrdinals(sceneDescription')
                     = [i \in 1..CountType(shapes', "panel") |-> i]
               /\ sceneDescription' # << >> => sceneDescription'[1].n = 1
               /\ \A i \in 1..CountType(shapes', "panel") :
                      AuthoredText(sceneDescription', i)
                          = AuthoredText(sceneDescription, i)
               /\ CountType(shapes', "panel") = 0 => sceneDescription' = << >>
          ELSE sceneDescription' = sceneDescription]_vars

\* a commit took the panel count from 3 to 2 under the script with three
\* sections: sections 1 and 2 kept their text, section 3 is gone
C17_Witness ==
    /\ historyOp.op = "commit"
    /\ CountType(shapes, "panel") = 2
    /\ CountType(shapesHistory[historyOp.from + 1], "panel") = 3
    /\ sceneDescription = << [n |-> 1, text |-> "a"], [n |-> 2, text |-> "b"] >>

\* C18: while the inline text box is open, the keys Ctrl/Cmd+Z,
\* Ctrl/Cmd+Shift+Z, Ctrl/Cmd+Y and Delete/Backspace leave the live shape
\* list, the history and the history index as they are.
C18_KeysIdleWhileEditing ==
    [][(/\ lastEvent'.kind = "key"
        /\ lastEvent'.key \in { "Ctrl+Z", "Ctrl+Shift+Z", "Ctrl+Y", "Delete" }
        /\ lastEvent'.editing) =>
          UNCHANGED << shapes, shapesHistory, shapesHistoryIndex >>]_vars

\* ---------------------------------------------------------------------
\* C19: every place that makes a fresh skeleton for a box returns the same
\* rig for that box: the head at (x + 0.5 * width, y + 0.15 * height) and
\* each left/right pair of joints at equal height, mirrored about the
\* vertical centre line of the box.
JointPairs ==
    { << "leftShoulder", "rightShoulder" >>, << "leftElbow", "rightElbow" >>,
      << "leftHand", "rightHand" >>, << "leftHip", "rightHip" >>,
      << "leftKnee", "rightKnee" >>, << "leftFoot", "rightFoot" >>,
      << "leftEye", "rightEye" >> }

Mirrored(rig, box) ==
    \A pair \in JointPairs :
        /\ rig[pair[1]].y = rig[pair[2]].y
        /\ RAdd(rig[pair[1]].x, rig[pair[2]].x) = RInt(2 * box.x + box.width)

HeadPlaced(rig, box) ==
    rig["head"] = RPt(RAdd(RInt(box.x), Rat(box.width, 2)),
                      RAdd(RInt(box.y), Rat(box.height * 15, 100)))

FreshSkeleton(fn, box) ==
    IF fn = "handleDrop"
    THEN createInitialSkeleton(box.x, box.y, box.width, box.height)
    ELSE PoseEditorModal_createInitialSkeleton(box.x, box.y,
                                               box.width, box.height)

C19_OneCanonicalRig ==
    (lastEvent.kind = "return" /\ lastEvent.fn \in SkeletonMakers) =>
        /\ HeadPlaced(lastEvent.output, lastEvent.input)
        /\ Mirrored(lastEvent.output, lastEvent.input)
        /\ \A fn \in SkeletonMakers :
               lastEvent.output = FreshSkeleton(fn, lastEvent.input)

\* ---------------------------------------------------------------------
\* C20: the history of the page is never empty and its index is a position
\* of it (0 <= index <= length - 1); canUndo holds exactly when the index
\* is above 0 and canRedo exactly when it is below length - 1; and an undo
\* or a redo, from the toolbar or the keyboard, leaves the index inside
\* that range and the length as it was.
HistoryInRange ==
    /\ Len(shapesHistory) >= 1
    /\ shapesHistoryIndex >= 0
    /\ shapesHistoryIndex <= Len(shapesHistory) - 1

C20_HistoryWellFormed ==
    /\ HistoryInRange
    /\ canUndo <=> shapesHistoryIndex > 0
    /\ canRedo <=> shapesHistoryIndex < Len(shapesHistory) - 1
    /\ historyOp.op \in { "undo", "redo" } =>
           /\ Len(shapesHistory) = historyOp.len
           /\ historyOp.from \in 0..(historyOp.len - 1)
           /\ shapesHistoryIndex \in 0..(historyOp.len - 1)

\* an undo was asked for at the bottom of a history of several snapshots
C20_Witness ==
    /\ historyOp.op = "undo"
    /\ historyOp.from = 0
    /\ Len(shapesHistory) >= 2
    /\ shapesHistoryIndex = 0
    /\ ~canUndo
    /\ canRedo

\* ---------------------------------------------------------------------
\* C21: in every reachable state the live shape list of the page is the
\* history snapshot at the page's history index, whatever scene edits,
\* undos, redos, applied layouts and character deletions came before.
C21_LiveListIsSnapshot ==
    shapes = shapesHistory[shapesHistoryIndex + 1]

\* ---------------------------------------------------------------------
\* C22: when pointer-up ends the creation of a Bubble or Panel whose width
\* or height is below 10 document units, the shape is afterwards neither in
\* the live shape list nor in any snapshot of the history (so that no undo
\* or redo can bring it back).
C22_DiscardedShapeIsGone ==
    [][ ( /\ lastEvent'.kind = "up"
          /\ action.type = "creating"
          /\ action.shape.type \in { "bubble", "panel" }
          /\ HasId(shapes, action.shape.id)
          /\ BelowMinimumSize(FindShape(shapes, action.shape.id)) )
        => /\ ~ HasId(shapes', action.shape.id)
           /\ \A k \in 1..Len(shapesHistory') :
                  ~ HasId(shapesHistory'[k], action.shape.id) ]_vars

\* ---------------------------------------------------------------------
\* C23: pointer-up resolves every gesture. Released from Creating, Drawing,
\* Dragging, Resizing, Tail-dragging, Vertex-editing or Arrow-endpoint
\* dragging it makes exactly one commit (one snapshot appended at the next
\* index, holding the live list) and the action becomes Idle; released from
\* Panning or from Idle it makes no commit, leaves the page as it is, and the
\* action is Idle afterwards.
CommittingActions ==
    { "creating", "drawing", "dragging", "resizing", "draggingTail",
      "editingPanelVertex", "draggingArrowHandle" }

C23_PointerUpResolves ==
    [][ lastEvent'.kind = "up"
        => /\ action'.type = "none"
           /\ action.type \in CommittingActions
              => /\ historyOp'.op = "commit"
                 /\ shapesHistoryIndex' = shapesHistoryIndex + 1
                 /\ Len(shapesHistory') = shapesHistoryIndex + 2
                 /\ shapesHistory'[shapesHistoryIndex' + 1] = shapes'
                 /\ SubSeq(shapesHistory', 1, shapesHistoryIndex + 1)
                        = SubSeq(shapesHistory, 1, shapesHistoryIndex + 1)
           /\ action.type \in { "panning", "none" }
              => /\ historyOp'.op = "none"
                 /\ UNCHANGED pageVars ]_vars

C23_Witness ==
    /\ lastEvent.kind = "up"
    /\ lastEvent.from = "editingPanelVertex"
    /\ action.type = "none"
    /\ historyOp.op = "commit"
    /\ gesture.phase = "done"
    /\ gesture.moves >= 1

\* ---------------------------------------------------------------------
\* C24: a Panning gesture never touches the page and only translates the
\* view. Its pointer-down copies the view transform and the pointer's screen
\* position; each of its pointer-moves leaves shapes, history and history
\* index unchanged, keeps the scale, and sets the translation to the start
\* translation plus (pointer screen position - start screen position); its
\* pointer-up changes neither the page nor the view.
SameRational(a, b) == a.num * b.den = b.num * a.den

C24_PanOnlyTranslates ==
    [][ /\ (action.type = "none" /\ action'.type = "panning")
           => /\ UNCHANGED << pageVars, viewTransform >>
              /\ action'.startVT = viewTransform
              /\ action'.startPos = lastEvent'.cursor
        /\ lastEvent'.kind = "pan"
           => /\ action.type = "panning"
              /\ UNCHANGED << pageVars, action >>
              /\ SameRational(viewTransform'.scale, action.startVT.scale)
              /\ SameRational(viewTransform'.x,
                     [num |-> action.startVT.x.num
                                + (lastEvent'.cursor.x - action.startPos.x)
                                  * action.startVT.x.den,
                      den |-> action.startVT.x.den])
              /\ SameRational(viewTransform'.y,
                     [num |-> action.startVT.y.num
                                + (lastEvent'.cursor.y - action.startPos.y)
                                  * action.startVT.y.den,
                      den |-> action.startVT.y.den])
        /\ (lastEvent'.kind = "up" /\ action.type = "panning")
           => UNCHANGED << pageVars, viewTransform >> ]_vars

\* a pan that started in a zoomed view has been completed and has moved it
C24_Witness ==
    /\ lastEvent.kind = "up"
    /\ lastEvent.from = "panning"
    /\ action.type = "none"
    /\ shapes # << >>
    /\ ~ SameRational(viewTransform.scale, RInt(1))
    /\ viewTransform \notin SceneViews

\* ---------------------------------------------------------------------
\* C25: a primary pointer-down while the space modifier is held, or while the
\* pan tool is active, or on the empty background outside the page, enters
\* Panning, recording the pointer's screen position and a copy of the view
\* transform, whatever the tool and whatever lies under the pointer; it
\* creates, selects and moves no shape.
C25_PanTakesPrecedence ==
    [][ ( /\ lastEvent'.kind = "down"
          /\ \/ lastEvent'.space
             \/ lastEvent'.tool = "pan"
             \/ lastEvent'.target = "svg" )
        => /\ action'.type = "panning"
           /\ action'.startVT = viewTransform
           /\ action'.startPos = lastEvent'.cursor
           /\ UNCHANGED << pageVars, selectedShapeId, viewTransform >> ]_vars

\* ---------------------------------------------------------------------
\* C26: a pointer-down with the text tool creates the Text shape at once: one
\* Text shape is appended to the live list by one commit, the action stays
\* Idle, the tool becomes select, the new shape is selected and its inline
\* editor opens.
TextToolDown ==
    /\ lastEvent'.kind = "down"
    /\ lastEvent'.tool = "text"
    /\ lastEvent'.target = "canvas"
    /\ ~ lastEvent'.space

TextCreated ==
    /\ Len(shapes') = Len(shapes) + 1
    /\ SubSeq(shapes', 1, Len(shapes)) = shapes
    /\ shapes'[Len(shapes')].type = "text"
    /\ ~ HasId(shapes, shapes'[Len(shapes')].id)
    /\ historyOp'.op = "commit"
    /\ shapesHistoryIndex' = shapesHistoryIndex + 1
    /\ shapesHistory'[shapesHistoryIndex' + 1] = shapes'
    /\ SubSeq(shapesHistory', 1, shapesHistoryIndex + 1)
           = SubSeq(shapesHistory, 1, shapesHistoryIndex + 1)
    /\ action.type = "none"
    /\ action'.type = "none"
    /\ activeTool' = "select"
    /\ selectedShapeId' = shapes'[Len(shapes')].id
    /\ editingShapeId' = shapes'[Len(shapes')].id

\* as stated: the commit makes the history one entry longer
C26_TextLengthPlusOne ==
    [][ TextToolDown
        => /\ TextCreated
           /\ Len(shapesHistory') = Len(shapesHistory) + 1 ]_vars

\* amended: the commit leaves exactly one entry after the previous index
C26_TextToolCreatesAtOnce ==
    [][ TextToolDown
        => /\ TextCreated
           /\ Len(shapesHistory') = shapesHistoryIndex + 2 ]_vars

\* a text was created by a click made below the last history index
C26_Witness ==
    /\ lastEvent.kind = "down"
    /\ lastEvent.tool = "text"
    /\ historyOp.op = "commit"
    /\ action.type = "none"
    /\ activeTool = "select"
    /\ editingShapeId = selectedShapeId
    /\ HasId(shapes, selectedShapeId)
    /\ FindShape(shapes, selectedShapeId).type = "text"
    /\ Len(shapes) = 1
    /\ shapes[1].id > 1
    /\ shapesHistoryIndex = 1

\* ---------------------------------------------------------------------
\* C27: the Resizing action is only entered for an Image, a Bubble or a Text:
\* whenever the action is Resizing, its recorded original shape is of one of
\* these kinds (and is the shape that was hit), and a resize requested on a
\* Panel, a Drawing or an Arrow leaves the action Idle.
ResizeRequested ==
    /\ lastEvent'.kind = "down"
    /\ lastEvent'.target = "resize"
    /\ lastEvent'.tool = "select"
    /\ ~ lastEvent'.space

C27_ResizeOnlyBoxShapes ==
    [][ /\ action'.type = "resizing"
           => /\ action'.originalShape.type \in { "image", "bubble", "text" }
              /\ action # action'
                 => /\ ResizeRequested
                    /\ HasId(shapes, action'.shapeId)
                    /\ action'.originalShape = FindShape(shapes, action'.shapeId)
        /\ ( /\ ResizeRequested
             /\ FindShape(shapes, selectedShapeId').type
                    \in { "panel", "drawing", "arrow" } )
           => /\ action.type = "none"
              /\ action'.type = "none"
              /\ UNCHANGED pageVars ]_vars

\* a resize was requested on an arrow, and the editor is idle
C27_Witness ==
    /\ lastEvent.kind = "down"
    /\ lastEvent.target = "resize"
    /\ lastEvent.tool = "select"
    /\ ~ lastEvent.space
    /\ HasId(shapes, selectedShapeId)
    /\ FindShape(shapes, selectedShapeId).type = "arrow"
    /\ action.type = "none"

\* ---------------------------------------------------------------------
\* C28: dragging follows the cursor without jumping. After a pointer-down on
\* a shape's body at document point p0 and a pointer-move to p1, every part
\* of the shape's geometry (the vertices of a Panel, both endpoints of an
\* Arrow, all stroke points of a Drawing, box origin and tail of a Bubble,
\* box origin of a Text or Image) is displaced by exactly p1 - p0 from where
\* it was before the gesture, whatever the kind of the shape and however it
\* was created or edited before.
PointsDisplaced(ps0, ps1, d) ==
    /\ Len(ps1) = Len(ps0)
    /\ \A k \in 1..Len(ps0) :
           ps1[k] = Pt(ps0[k].x + d.x, ps0[k].y + d.y)

Displaced(s0, s1, d) ==
    CASE s0.type \in { "panel", "arrow" } ->
           PointsDisplaced(s0.points, s1.points, d)
      [] s0.type = "drawing" ->
           /\ Len(s1.points) = Len(s0.points)
           /\ \A k \in 1..Len(s0.points) :
                  PointsDisplaced(s0.points[k], s1.points[k], d)
      [] s0.type = "bubble" ->
           /\ s1.x = s0.x + d.x
           /\ s1.y = s0.y + d.y
           /\ (s0.tail = None) = (s1.tail = None)
           /\ s0.tail # None
              => s1.tail[1] = Pt(s0.tail[1].x + d.x, s0.tail[1].y + d.y)
      [] OTHER ->
           /\ s1.x = s0.x + d.x
           /\ s1.y = s0.y + d.y

\* the first pointer-move of a drag, right after its pointer-down
FirstDragMove ==
    /\ lastEvent.kind = "down"
    /\ lastEvent.target = "shape"
    /\ action.type = "dragging"
    /\ HasId(shapes, action.shapeId)
    /\ lastEvent'.kind = "move"

C28_DragFollowsCursor ==
    [][ FirstDragMove
        => LET s0 == FindShape(shapes, action.shapeId)
               box == getShapeBBox(s0)
               p0 == Pt(box.x + action.startOffset.x,
                        box.y + action.startOffset.y)
               p1 == lastEvent'.cursor
           IN /\ HasId(shapes', action.shapeId)
              /\ Displaced(s0, FindShape(shapes', action.shapeId),
                           Pt(p1.x - p0.x, p1.y - p0.y)) ]_vars

\* ---------------------------------------------------------------------
\* C29: gestures tolerate coalesced pointer-moves. For Creating, Dragging,
\* Resizing, Tail-dragging, Vertex-editing and Arrow-endpoint dragging, the
\* live list after the pointer-moves p1..pk is the list that the single
\* pointer-move pk produces from the state right after the pointer-down; the
\* release commits that list, so the committed geometry is the same.
CoalescedGestures ==
    { "creating", "dragging", "resizing", "draggingTail",
      "editingPanelVertex", "draggingArrowHandle" }

\* the live list right after the pointer-down of the running gesture
AfterPointerDown ==
    IF action.type = "creating"
    THEN Append(gesture.before, action.shape)
    ELSE gesture.before

SingleMove(list, a, pos) ==
    CASE a.type = "creating" -> CreatingFrame(list, a, pos)
      [] a.type = "dragging" -> DraggingFrame(list, a, pos)
      [] a.type = "resizing" -> ResizingFrame(list, a, pos)
      [] a.type = "draggingTail" -> TailFrame(list, a, pos)
      [] a.type = "editingPanelVertex" -> VertexFrame(list, a, pos)
      [] a.type = "draggingArrowHandle" -> ArrowHandleFrame(list, a, pos)

C29_CoalescedMoves ==
    [][ ( /\ lastEvent'.kind = "move"
          /\ action.type \in CoalescedGestures
          /\ gesture.phase = "active"
          /\ gesture.clean )
        => /\ shapes' = SingleMove(AfterPointerDown, action, lastEvent'.cursor)
           /\ MouseUpShapes(shapes', action')
                  = MouseUpShapes(SingleMove(AfterPointerDown, action,
                                             lastEvent'.cursor), action) ]_vars

\* ---------------------------------------------------------------------
\* C30: a Panel's stored x, y, width and height are the tight bounding box of
\* its vertex list in every reachable state: no step of the editor, in
\* particular no pointer-move of a vertex edit and no midpoint insertion,
\* leads from a page whose panels are all boxed tightly (in the live list and
\* in the snapshots of its history) to a page with a panel that is not.
TightlyBoxed(s) ==
    LET xs == Xs(s.points)
        ys == Ys(s.points)
    IN /\ s.x = MinOf(xs)
       /\ s.y = MinOf(ys)
       /\ s.width = MaxOf(xs) - MinOf(xs)
       /\ s.height = MaxOf(ys) - MinOf(ys)

PanelsBoxed(list) ==
    \A i \in 1..Len(list) :
        (list[i].type = "panel" /\ Len(list[i].points) > 0)
            => TightlyBoxed(list[i])

\* the live list and every snapshot that undo or redo can load
PageBoxed(list, history) ==
    /\ PanelsBoxed(list)
    /\ \A k \in 1..Len(history) : PanelsBoxed(history[k])

C30_PanelBoxIsTight ==
    [][ PageBoxed(shapes, shapesHistory)
        => PageBoxed(shapes', shapesHistory') ]_vars

\* ---------------------------------------------------------------------
\* C31: a press on the midpoint marker of edge i of a panel (select tool)
\* inserts exactly one vertex, the midpoint of vertices i and i + 1
\* (cyclically), at position i + 1 of the vertex list, keeps every other
\* vertex in its order and every other shape as it is, and makes the action
\* Editing-Panel-Vertex for that panel with vertexIndex = i + 1; the
\* pointer-moves that follow move that vertex and no other.
EdgePressed ==
    /\ lastEvent'.kind = "down"
    /\ lastEvent'.target = "edge"
    /\ lastEvent'.tool = "select"

OthersKept(list0, list1, id) ==
    /\ Len(list1) = Len(list0)
    /\ \A k \in 1..Len(list0) :
           /\ list1[k].id = list0[k].id
           /\ list0[k].id # id => list1[k] = list0[k]

IsMidpoint(p, p1, p2) ==
    /\ 2 * p.x = p1.x + p2.x
    /\ 2 * p.y = p1.y + p2.y

C31_MidpointInsertion ==
    [][ /\ EdgePressed
           => LET id == lastEvent'.shape
                  i == lastEvent'.edge
                  ps0 == FindShape(shapes, id).points
                  ps1 == FindShape(shapes', id).points
                  n == Len(ps0)
              IN /\ Len(ps1) = n + 1
                 /\ IsMidpoint(ps1[i + 2], ps0[i + 1], ps0[((i + 1) % n) + 1])
                 /\ \A k \in 1..(i + 1) : ps1[k] = ps0[k]
                 /\ \A k \in (i + 2)..n : ps1[k + 1] = ps0[k]
                 /\ OthersKept(shapes, shapes', id)
                 /\ action' = [type |-> "editingPanelVertex", shapeId |-> id,
                               vertexIndex |-> i + 1]
        /\ ( /\ lastEvent.kind = "down"
             /\ lastEvent.target = "edge"
             /\ action.type = "editingPanelVertex"
             /\ lastEvent'.kind = "move" )
           => LET id == action.shapeId
                  v == action.vertexIndex
                  ps0 == FindShape(shapes, id).points
                  ps1 == FindShape(shapes', id).points
              IN /\ v = lastEvent.edge + 1
                 /\ Len(ps1) = Len(ps0)
                 /\ ps1[v + 1] = lastEvent'.cursor
                 /\ \A k \in 1..Len(ps0) : k # v + 1 => ps1[k] = ps0[k]
                 /\ OthersKept(shapes, shapes', id)
                 /\ action' = action ]_vars

\* the vertex inserted on an edge is being dragged
C31_Witness ==
    /\ lastEvent.kind = "move"
    /\ action.type = "editingPanelVertex"
    /\ gesture.moves = 1
    /\ gesture.clean
    /\ HasId(shapes, action.shapeId)
    /\ HasId(gesture.before, action.shapeId)
    /\ Len(FindShape(shapes, action.shapeId).points) = 5
    /\ FindShape(shapes, action.shapeId).points[action.vertexIndex + 1]
           = lastEvent.cursor
    /\ FindShape(gesture.before, action.shapeId).points[action.vertexIndex + 1]
           # lastEvent.cursor

\* ---------------------------------------------------------------------
\* C32: while the action is a gesture on a shape (Creating, Drawing,
\* Dragging, Resizing, Tail-dragging, Vertex-editing, Arrow-endpoint
\* dragging) the shape id recorded in the action is the id of a shape of the
\* live list, and a recorded vertex index lies within the vertex list of that
\* panel, whatever keyboard undo, redo and delete do between the pointer
\* events.
ShapeGestures ==
    { "creating", "drawing", "dragging", "resizing", "draggingTail",
      "editingPanelVertex", "draggingArrowHandle" }

C32_GestureShapeIsLive ==
    action.type \in ShapeGestures
        => /\ HasId(shapes, ActionShapeId(action))
           /\ action.type = "editingPanelVertex"
              => LET s == FindShape(shapes, action.shapeId)
                 IN /\ s.type = "panel"
                    /\ action.vertexIndex \in 0..(Len(s.points) - 1)

\* ---------------------------------------------------------------------
\* C33: a Dragging, Vertex-editing or Resizing gesture on an existing shape
\* never removes a shape: when its pointer-up arrives (no other event having
\* come between its pointer events), the live list holds the same set of
\* shape ids as before its pointer-down.
C33_GestureKeepsShapes ==
    [][ ( /\ lastEvent'.kind = "up"
          /\ action.type \in { "dragging", "editingPanelVertex", "resizing" }
          /\ gesture.phase = "active"
          /\ gesture.clean )
        => /\ Ids(shapes) = Ids(gesture.before)
           /\ Ids(shapes') = Ids(gesture.before) ]_vars

\* ---------------------------------------------------------------------
\* C34: in every reachable state the selected shape id is null or the id of
\* a shape of the live list (so that Delete / Backspace with a selection
\* always removes exactly one shape).
C34_SelectionIsLive ==
    selectedShapeId # Null => HasId(shapes, selectedShapeId)

\* ---------------------------------------------------------------------
\* C35: for every image with a skeleton pose, the flattened output draws
\* exactly the lines and the circles the canvas draws for the pose's
\* visibility preset (the joints of the preset, and the connections with
\* both ends in it), and the pose keeps the coordinates of all its joints,
\* hidden ones included.
SkeletonImages(list) ==
    { i \in 1..Len(list) : /\ list[i].type = "image"
                           /\ list[i].pose # None
                           /\ list[i].pose[1].type = "skeleton" }

C35_PresetInOutputAsOnCanvas ==
    \A i \in SkeletonImages(shapes) :
        LET drawn == ImageElements(shapes[i], characters)[1]
            shown == renderPose(shapes[i])
        IN /\ drawn.lines = shown.lines
           /\ drawn.circles = shown.circles
           /\ DOMAIN shapes[i].pose[1].data = JointNames

\* ---------------------------------------------------------------------
\* C36: the joints an image keeps are finite numbers after a frame of its
\* resize and after it was opened in the pose editor and saved, whatever
\* its box, a box of zero width or height included.
FiniteJoints(list) ==
    \A i \in SkeletonImages(list) :
        \A j \in DOMAIN list[i].pose[1].data :
            /\ IsFinite(list[i].pose[1].data[j].x)
            /\ IsFinite(list[i].pose[1].data[j].y)

OpenedUntouched ==
    /\ posingCharacter # None
    /\ HasId(shapes, posingCharacter[1].id)
    /\ FindShape(shapes, posingCharacter[1].id) = posingCharacter[1]
    /\ posingCharacter[1].pose # None
    /\ posingCharacter[1].pose[1].type = "skeleton"
    /\ posingCharacter[1].width > 0
    /\ posingCharacter[1].height > 0
    /\ skeletonPose = Some(MountedSkeletonPose(posingCharacter[1]))

C37_PoseRoundTrip ==
    [][ ( /\ lastEvent'.kind = "pose"
          /\ lastEvent'.op = "save"
          /\ OpenedUntouched )
        => /\ FindShape(shapes', posingCharacter[1].id).pose[1].data
                  = posingCharacter[1].pose[1].data
           /\ shapes' = shapes
           /\ shapesHistoryIndex' = shapesHistoryIndex + 1
           /\ Len(shapesHistory') = shapesHistoryIndex + 2
           /\ shapesHistory'[shapesHistoryIndex' + 1] = shapes'
           /\ \A k \in 1..(shapesHistoryIndex + 1) :
                  shapesHistory'[k] = shapesHistory[k] ]_vars

\* the pose editor was saved and the live list is the snapshot before it
C37_Witness ==
    /\ lastEvent.kind = "pose"
    /\ lastEvent.op = "save"
    /\ historyOp.op = "commit"
    /\ SkeletonImages(shapes) # { }
    /\ shapes = shapesHistory[shapesHistoryIndex]

\* ---------------------------------------------------------------------
\* C38: between the start of a page generation and the arrival of its
\* result or error, the page's scene is not changed: no step taken while
\* the generation is outstanding changes the live list, the history or
\* its index.
C38_NoEditWhileGenerating ==
    [][ (isLoading /\ isLoading')
        => UNCHANGED << shapes, shapesHistory, shapesHistoryIndex >> ]_vars

\* ---------------------------------------------------------------------
\* C39: an undo or a redo that changes the number of panels to n leaves a
\* script with exactly the n sections Panel 1 .. Panel n.
C39_UndoRedoKeepScriptSections ==
    [][ ( /\ historyOp'.op \in { "undo", "redo" }
          /\ CountType(shapes', "panel") # CountType(shapes, "panel") )
        => SectionOrdinals(sceneDescription')
               = [i \in 1..CountType(shapes', "panel") |-> i] ]_vars

\* ---------------------------------------------------------------------
\* C40: a zoom by the wheel (factor 1.1) or by the buttons (factor 1.25)
\* gives a scale in [0.1, 10] whatever the scale was before, and a pan
\* gives the scale it started with; so a scale in range stays in range
\* under any sequence of them.
ScaleInRange(s) == ~RLess(s, Rat(1, 10)) /\ ~RLess(RInt(10), s)

C40_ZoomStaysInRange ==
    /\ (Returned("zoom") \/ Returned("handleWheel")) =>
           ScaleInRange(lastEvent.output.scale)
    /\ Returned("panning") =>
           lastEvent.output.scale = lastEvent.input.startVT.scale

\* a zoom with the buttons from a scale above the upper limit came back to
\* the limit
C40_Witness ==
    /\ Returned("zoom")
    /\ lastEvent.input.direction = "out"
    /\ lastEvent.input.view.scale = RInt(20)
    /\ lastEvent.output.scale = RInt(10)

====
